---- MODULE Spec2Model ----
(***************************************************************************)
(* Multi-factor stock scoring and recommendation engine.                   *)
(*                                                                         *)
(* Two implementations of StockAnalyzer are modelled side by side:         *)
(*   "PA"  src/python_analysis/analysis.py                                 *)
(*   "SA"  src/Stock-Analysis-Extension/modules/stock_analyzer.py          *)
(*                                                                         *)
(* Numbers.  Scores are exact rationals held as integers in units of       *)
(* 1/Unit (Unit = 42000): a mean of up to seven integer sub-scores, a      *)
(* two-decimal rounding and the products with the weights .40/.30/.20/.10  *)
(* are all integers in that unit.  Prices are in cents, multipliers in     *)
(* 1/10000, fundamental ratios in hundredths, market caps in millions of   *)
(* dollars.  Binary floating-point representation error is not modelled.   *)
(***************************************************************************)
EXTENDS Integers, Sequences, FiniteSets, TLC

\* impl, hasTA     which StockAnalyzer class is in use; the HAS_TA flag
\* scoring_weights the analyzer's only attribute that analyze_stock reads
\* pc, req, res    position, argument and result of the current call
\* outcome         whether the call returned or raised
\* invoked         the dimension scorers the call has invoked
\* locals          the local variables of the invocations in progress
\* history         the <<argument, result>> pairs of the calls completed
VARIABLES impl, hasTA, scoring_weights, pc, req, res, outcome, invoked,
          locals, history

vars ==
    <<impl, hasTA, scoring_weights, pc, req, res, outcome, invoked, locals,
      history>>

Impls == {"PA", "SA"}

\* scoring weights in percent
DefaultWeights ==
    [fundamental |-> 40, technical |-> 30, momentum |-> 20, sentiment |-> 10]

Scorers == {"fundamental", "technical", "momentum", "sentiment"}

\* ----------------------------------------------------------------- bounds
\* upper end of the overall-score range explored by the classifier runs
MaxOverall == 100

\* ---------------------------------------------------------------- numbers
Unit == 420 * 100
Hundredth == 420

\* a whole number of points (85, 50, ...) in score units
Pts(n) == n * Unit

\* Python's None
None == [k |-> "none", v |-> 0, s |-> ""]
Num(n) == [k |-> "num", v |-> n, s |-> ""]
Str(x) == [k |-> "str", v |-> 0, s |-> x]

\* round(x, 2) on a value in score units: nearest hundredth, ties to even
Round2(x) ==
    LET q == x \div Hundredth
        r == x % Hundredth
    IN  IF 2 * r < Hundredth THEN q * Hundredth
        ELSE IF 2 * r > Hundredth THEN (q + 1) * Hundredth
        ELSE IF q % 2 = 0 THEN q * Hundredth ELSE (q + 1) * Hundredth

\* ------------------------------------------------- RecommendationClassifier
PA_get_recommendation_off(overall_score) ==
    IF overall_score > Pts(80) THEN "STRONG_BUY"
    ELSE IF overall_score >= Pts(65) THEN "BUY"
    ELSE IF overall_score >= Pts(35) THEN "HOLD"
    ELSE IF overall_score >= Pts(20) THEN "SELL"
    ELSE "STRONG_SELL"

PA_get_recommendation(overall_score) ==
    IF overall_score >= Pts(80) THEN "STRONG_BUY"
    ELSE IF overall_score >= Pts(65) THEN "BUY"
    ELSE IF overall_score >= Pts(35) THEN "HOLD"
    ELSE IF overall_score >= Pts(20) THEN "SELL"
    ELSE "STRONG_SELL"

SA_get_recommendation(overall_score) ==
    IF overall_score >= Pts(80) THEN "STRONG_BUY"
    ELSE IF overall_score >= Pts(65) THEN "BUY"
    ELSE IF overall_score >= Pts(35) THEN "HOLD"
    ELSE IF overall_score >= Pts(20) THEN "SELL"
    ELSE "STRONG_SELL"

\* ------------------------------------------------------------------------
\* SpecRec: _get_recommendation applied to every score 0.00 .. MaxOverall
\* in steps of 0.01, for each implementation.
\* ------------------------------------------------------------------------
RecScores == 0 .. (MaxOverall * 100)

InitRec ==
    /\ impl \in Impls
    /\ hasTA = TRUE
    /\ pc = "call"
    /\ req \in [score : RecScores]
    /\ res = None
    /\ outcome = "none"
    /\ invoked = {}
    /\ scoring_weights = DefaultWeights
    /\ locals = <<>>
    /\ history = <<>>

GetRecommendationPA ==
    /\ pc = "call"
    /\ impl = "PA"
    /\ res' = PA_get_recommendation(req.score * Hundredth)
    /\ outcome' = "returned"
    /\ pc' = "done"
    /\ UNCHANGED <<impl, hasTA, scoring_weights, req, invoked, locals, history>>

GetRecommendationSA ==
    /\ pc = "call"
    /\ impl = "SA"
    /\ res' = SA_get_recommendation(req.score * Hundredth)
    /\ outcome' = "returned"
    /\ pc' = "done"
    /\ UNCHANGED <<impl, hasTA, scoring_weights, req, invoked, locals, history>>

NextRec == GetRecommendationPA \/ GetRecommendationSA

SpecRec == InitRec /\ [][NextRec]_vars

C20_DocumentedRule ==
    (pc = "done" /\ impl = "SA") =>
        LET s == req.score IN
        /\ (s >= 7000) => (res \in {"BUY", "STRONG_BUY"})
        /\ (s <= 4000) => (res \in {"SELL", "STRONG_SELL"})
        /\ (s >= 4100 /\ s <= 6900) => (res = "HOLD")

\* ---------------------------------------------------------- dictionaries
\* A fundamentals argument is None or a mapping from field names to values;
\* a value is None (absent or null), a number, or a non-numeric string.
Bad == Str("n/a")
EmptyMap == [x \in {} |-> None]
NoneDict == [k |-> "none", m |-> EmptyMap]
Dict(m) == [k |-> "dict", m |-> m]

\* dict.get(key): the value, or None when the key is missing
Get(d, key) == IF key \in DOMAIN d.m THEN d.m[key] ELSE None

\* Python truth value of a field: None and 0 are false, a non-empty
\* string and a non-zero number are true
Truthy(x) == (x.k = "str" /\ x.s # "") \/ (x.k = "num" /\ x.v # 0)

\* `x and x > 0` raises TypeError on a string; otherwise its truth value
PositiveFaults(x) == x.k = "str" /\ x.s # ""
Positive(x) == x.k = "num" /\ x.v > 0

\* ---------------------------------------------------- TargetPriceCalculator
\* n / d rounded to the nearest integer, ties to even (Python round)
RoundDiv(n, d) ==
    LET q == n \div d
        r == n % d
    IN  IF 2 * r < d THEN q
        ELSE IF 2 * r > d THEN q + 1
        ELSE IF q % 2 = 0 THEN q ELSE q + 1

\* multiplier by overall-score band, in 1/10000
BandMultiplier(overall_score) ==
    IF overall_score >= Pts(80) THEN 12500
    ELSE IF overall_score >= Pts(65) THEN 11500
    ELSE IF overall_score >= Pts(35) THEN 10500
    ELSE IF overall_score >= Pts(20) THEN 9500
    ELSE 8500

\* the adjustment without the `pe > 0` guard
PEAdjust_unguarded(multiplier, pe) ==
    IF pe.k = "num"
    THEN IF pe.v < 1500 THEN (multiplier * 105) \div 100
         ELSE IF pe.v > 3000 THEN (multiplier * 95) \div 100
         ELSE multiplier
    ELSE multiplier

\* `if pe and pe > 0:` then x1.05 below 15, x0.95 above 30 (pe in hundredths)
PEAdjust(multiplier, pe) ==
    IF Positive(pe)
    THEN IF pe.v < 1500 THEN (multiplier * 105) \div 100
         ELSE IF pe.v > 3000 THEN (multiplier * 95) \div 100
         ELSE multiplier
    ELSE multiplier

\* analysis.py: current_price is a float in cents here; any fault inside
\* the try block (fundamentals None, non-numeric pe) returns None
PA_calculate_target_price(current_price, fundamentals, overall_score) ==
    IF current_price = 0 THEN None
    ELSE IF fundamentals.k = "none" THEN None
    ELSE LET pe == Get(fundamentals, "pe_ratio") IN
         IF PositiveFaults(pe) THEN None
         ELSE Num(RoundDiv(current_price
                           * PEAdjust(BandMultiplier(overall_score), pe), 10000))

\* stock_analyzer.py: reads the last close itself (faults on an empty frame
\* or a frame without a close column) and has no zero-price guard
SA_calculate_target_price(price_df, fundamentals, overall_score) ==
    IF price_df.bars = 0 \/ price_df.cols # "full" THEN None
    ELSE IF fundamentals.k = "none" THEN None
    ELSE LET pe == Get(fundamentals, "pe_ratio") IN
         IF PositiveFaults(pe) THEN None
         ELSE Num(RoundDiv(price_df.close
                           * PEAdjust(BandMultiplier(overall_score), pe), 10000))

\* ------------------------------------------------------------------------
\* SpecTarget: _calculate_target_price on prices 0 .. MaxPriceCents, the
\* scores around every band edge and P/E values around 0, 15 and 30.
\* ------------------------------------------------------------------------
MaxPriceCents == 40

TargetScores == {0, 1999, 2000, 3499, 3500, 6499, 6500, 7999, 8000, 10000}
TargetPEs == {None, Bad, Num(-500), Num(0), Num(1), Num(1499), Num(1500),
              Num(3000), Num(3001)}

InitTarget ==
    /\ impl \in Impls
    /\ hasTA = TRUE
    /\ pc = "call"
    /\ req \in [price : 0 .. MaxPriceCents, score : TargetScores,
                 fundamentals : {NoneDict} \cup
                     {Dict([f \in {"pe_ratio"} |-> pe]) : pe \in TargetPEs}]
    /\ res = None
    /\ outcome = "none"
    /\ invoked = {}
    /\ scoring_weights = DefaultWeights
    /\ locals = <<>>
    /\ history = <<>>

CalculateTargetPricePA ==
    /\ pc = "call"
    /\ impl = "PA"
    /\ res' = PA_calculate_target_price(req.price, req.fundamentals,
                                        req.score * Hundredth)
    /\ outcome' = "returned"
    /\ pc' = "done"
    /\ UNCHANGED <<impl, hasTA, scoring_weights, req, invoked, locals, history>>

CalculateTargetPriceSA ==
    /\ pc = "call"
    /\ impl = "SA"
    /\ res' = SA_calculate_target_price(
                  [bars |-> 1, cols |-> "full", close |-> req.price],
                  req.fundamentals, req.score * Hundredth)
    /\ outcome' = "returned"
    /\ pc' = "done"
    /\ UNCHANGED <<impl, hasTA, scoring_weights, req, invoked, locals, history>>

NextTarget == CalculateTargetPricePA \/ CalculateTargetPriceSA

SpecTarget == InitTarget /\ [][NextTarget]_vars

\* band multiplier and P/E factor restated from the claim, in 1/10000 and 1/100
C10_Band(s) ==
    IF s >= 8000 THEN 12500 ELSE IF s >= 6500 THEN 11500
    ELSE IF s >= 3500 THEN 10500 ELSE IF s >= 2000 THEN 9500 ELSE 8500

C10_Expected(price, s, factor) ==
    LET n == price * C10_Band(s) * factor
        q == n \div 1000000
        r == n % 1000000
    IN  IF 2 * r < 1000000 THEN q
        ELSE IF 2 * r > 1000000 THEN q + 1
        ELSE IF q % 2 = 0 THEN q ELSE q + 1

C10_NumericCase ==
    /\ pc = "done"
    /\ req.price # 0
    /\ req.fundamentals.k = "dict"
    /\ req.fundamentals.m["pe_ratio"].k # "str"

\* C10 as stated: for a non-zero price the result is round(price x m, 2)
\* with m the band multiplier, x1.05 whenever pe_ratio is present and below
\* 15, x0.95 whenever present and above 30, unadjusted when absent or in
\* [15,30].
C10_AsStated ==
    C10_NumericCase =>
        LET pe == req.fundamentals.m["pe_ratio"]
            factor == IF pe.k = "num" /\ pe.v < 1500 THEN 105
                      ELSE IF pe.k = "num" /\ pe.v > 3000 THEN 95
                      ELSE 100
        IN  res = Num(C10_Expected(req.price, req.score, factor))

\* C10 amended: the x1.05 adjustment applies only when 0 < pe_ratio < 15;
\* x0.95 when pe_ratio > 30; no adjustment when pe_ratio is absent, zero,
\* negative or in [15,30].
C10_TargetPrice ==
    C10_NumericCase =>
        LET pe == req.fundamentals.m["pe_ratio"]
            factor == IF pe.k = "num" /\ pe.v > 0 /\ pe.v < 1500 THEN 105
                      ELSE IF pe.k = "num" /\ pe.v > 3000 THEN 95
                      ELSE 100
        IN  res = Num(C10_Expected(req.price, req.score, factor))

\* a negative P/E at price 0.40 and score 80: 0.40 x 1.25 = 0.50, not 0.52
C10_Witness ==
    /\ pc = "done"
    /\ req.price = 40
    /\ req.score = 8000
    /\ req.fundamentals = Dict([f \in {"pe_ratio"} |-> Num(-500)])
    /\ res = Num(50)

\* ------------------------------------------------------- scorer plumbing
\* m[key] = v (dictionary assignment)
Put(m, key, v) == [x \in DOMAIN m \cup {key} |-> IF x = key THEN v ELSE m[x]]

RECURSIVE SumSeq(_)
SumSeq(q) == IF q = <<>> THEN 0 ELSE Head(q) + SumSeq(Tail(q))

\* np.mean of a non-empty list of integer sub-scores, in score units
Mean(q) == (SumSeq(q) * Unit) \div Len(q)

\* The running state of one scorer's try block: the score_factors list,
\* the factor/indicator/metric map, two note lists, and whether an
\* exception has ended the block.
Acc0 == [sf |-> <<>>, map |-> EmptyMap, pos |-> <<>>, neg |-> <<>>,
         fault |-> FALSE]
Raise(a) == [a EXCEPT !.fault = TRUE]
Factor(a, s) == [a EXCEPT !.sf = Append(@, s)]
Entry(a, key, v) == [a EXCEPT !.map = Put(@, key, v)]
Note(a, text) == [a EXCEPT !.pos = Append(@, text)]
Weak(a, text) == [a EXCEPT !.neg = Append(@, text)]
\* score_factors.append(s); analysis['factors'][key] = score_factors[-1]
Scored(a, key, s) == Entry(Factor(a, s), key, Num(s))

\* `roe * 100 if roe < 1 else roe`, on a value in hundredths
Pct(x) == IF x < 100 THEN x * 100 ELSE x

\* ------------------------------------------- FundamentalScorer (analysis.py)
PA_fund_pe(a, f) ==
    LET pe == Get(f, "pe_ratio") IN
    IF a.fault THEN a
    ELSE IF PositiveFaults(pe) THEN Raise(a)
    ELSE IF ~Positive(pe) THEN a
    ELSE IF pe.v < 1500
         THEN Note(Scored(a, "pe_score", 85),
                   "Low P/E ratio suggests undervaluation")
    ELSE IF pe.v < 2500 THEN Scored(a, "pe_score", 70)
    ELSE IF pe.v < 3500 THEN Scored(a, "pe_score", 45)
    ELSE Entry(Weak(Factor(a, 25), "High P/E ratio suggests overvaluation"),
               "pe_score", Num(25))

PA_fund_pb(a, f) ==
    LET pb == Get(f, "price_to_book") IN
    IF a.fault THEN a
    ELSE IF PositiveFaults(pb) THEN Raise(a)
    ELSE IF ~Positive(pb) THEN a
    ELSE IF pb.v < 150
         THEN Note(Scored(a, "pb_score", 80),
                   "Low P/B ratio indicates good value")
    ELSE IF pb.v < 300 THEN Scored(a, "pb_score", 60)
    ELSE IF pb.v < 500 THEN Scored(a, "pb_score", 40)
    ELSE Entry(Weak(Factor(a, 20), "High P/B ratio suggests premium valuation"),
               "pb_score", Num(20))

PA_fund_roe(a, f) ==
    LET roe == Get(f, "return_on_equity") IN
    IF a.fault THEN a
    ELSE IF ~Truthy(roe) THEN a
    ELSE IF roe.k = "str" THEN Raise(a)
    ELSE IF Pct(roe.v) > 2000
         THEN Note(Scored(a, "roe_score", 90), "Excellent return on equity")
    ELSE IF Pct(roe.v) > 1500 THEN Scored(a, "roe_score", 75)
    ELSE IF Pct(roe.v) > 1000 THEN Scored(a, "roe_score", 60)
    ELSE Entry(Weak(Factor(a, 30), "Low return on equity"),
               "roe_score", Num(30))

PA_fund_de(a, f) ==
    LET de == Get(f, "debt_to_equity") IN
    IF a.fault THEN a
    ELSE IF de.k = "none" THEN a
    ELSE IF de.k = "str" THEN Raise(a)
    ELSE IF de.v < 30
         THEN Note(Scored(a, "de_score", 85), "Low debt-to-equity ratio")
    ELSE IF de.v < 60 THEN Scored(a, "de_score", 70)
    ELSE IF de.v < 100 THEN Scored(a, "de_score", 50)
    ELSE Entry(Weak(Factor(a, 25), "High debt-to-equity ratio"),
               "de_score", Num(25))

PA_fund_pm(a, f) ==
    LET pm == Get(f, "profit_margin") IN
    IF a.fault THEN a
    ELSE IF ~Truthy(pm) THEN a
    ELSE IF pm.k = "str" THEN Raise(a)
    ELSE IF Pct(pm.v) > 2000
         THEN Note(Scored(a, "pm_score", 90), "Excellent profit margin")
    ELSE IF Pct(pm.v) > 1000 THEN Scored(a, "pm_score", 75)
    ELSE IF Pct(pm.v) > 500 THEN Scored(a, "pm_score", 60)
    ELSE Entry(Weak(Factor(a, 30), "Low profit margin"),
               "pm_score", Num(30))

\* the except clause only logs: whatever the try block had already put
\* into `analysis` stays, and the score keeps its initial 50.0 unless the
\* final assignment was reached
PA_calculate_fundamental_score(fundamentals) ==
    LET blank == [score |-> Pts(50), factors |-> EmptyMap,
                  strengths |-> <<>>, weaknesses |-> <<>>]
        a == PA_fund_pm(PA_fund_de(PA_fund_roe(PA_fund_pb(
                 PA_fund_pe(Acc0, fundamentals), fundamentals),
                 fundamentals), fundamentals), fundamentals)
    IN  IF fundamentals.k = "none" \/ DOMAIN fundamentals.m = {}
        THEN blank
        ELSE [score |-> IF ~a.fault /\ a.sf # <<>> THEN Mean(a.sf)
                        ELSE Pts(50),
              factors |-> a.map,
              strengths |-> a.pos,
              weaknesses |-> a.neg]

\* ------------------------------------ FundamentalScorer (stock_analyzer.py)
\* factors[key] = s  (a local dictionary; the mean is taken over its values)
SA_fund_pe(a, f) ==
    LET pe == Get(f, "pe_ratio") IN
    IF a.fault THEN a
    ELSE IF PositiveFaults(pe) THEN Raise(a)
    ELSE IF ~Positive(pe) THEN Scored(a, "pe_score", 40)
    ELSE IF pe.v < 1500
         THEN Note(Scored(a, "pe_score", 85),
                   "Low P/E ratio suggests undervaluation")
    ELSE IF pe.v < 2500 THEN Scored(a, "pe_score", 70)
    ELSE IF pe.v < 3500 THEN Scored(a, "pe_score", 45)
    ELSE Weak(Scored(a, "pe_score", 25),
              "High P/E ratio suggests overvaluation")

SA_fund_pb(a, f) ==
    LET pb == Get(f, "price_to_book") IN
    IF a.fault THEN a
    ELSE IF PositiveFaults(pb) THEN Raise(a)
    ELSE IF ~Positive(pb) THEN Scored(a, "pb_score", 50)
    ELSE IF pb.v < 150
         THEN Note(Scored(a, "pb_score", 80),
                   "Low P/B ratio indicates good value")
    ELSE IF pb.v < 300 THEN Scored(a, "pb_score", 60)
    ELSE IF pb.v < 500 THEN Scored(a, "pb_score", 40)
    ELSE Weak(Scored(a, "pb_score", 20),
              "High P/B ratio suggests premium valuation")

SA_fund_roe(a, f) ==
    LET roe == Get(f, "return_on_equity") IN
    IF a.fault THEN a
    ELSE IF ~Truthy(roe) THEN Scored(a, "roe_score", 50)
    ELSE IF roe.k = "str" THEN Raise(a)
    ELSE IF Pct(roe.v) > 2000
         THEN Note(Scored(a, "roe_score", 90), "Excellent return on equity")
    ELSE IF Pct(roe.v) > 1500
         THEN Note(Scored(a, "roe_score", 75), "Strong return on equity")
    ELSE IF Pct(roe.v) > 1000 THEN Scored(a, "roe_score", 60)
    ELSE Weak(Scored(a, "roe_score", 30), "Low return on equity")

SA_fund_de(a, f) ==
    LET de == Get(f, "debt_to_equity") IN
    IF a.fault THEN a
    ELSE IF de.k = "none" THEN Scored(a, "de_score", 50)
    ELSE IF de.k = "str" THEN Raise(a)
    ELSE IF de.v < 30
         THEN Note(Scored(a, "de_score", 85), "Low debt-to-equity ratio")
    ELSE IF de.v < 60 THEN Scored(a, "de_score", 70)
    ELSE IF de.v < 100 THEN Scored(a, "de_score", 50)
    ELSE Weak(Scored(a, "de_score", 25), "High debt-to-equity ratio")

SA_fund_pm(a, f) ==
    LET pm == Get(f, "profit_margin") IN
    IF a.fault THEN a
    ELSE IF ~Truthy(pm) THEN Scored(a, "pm_score", 50)
    ELSE IF pm.k = "str" THEN Raise(a)
    ELSE IF Pct(pm.v) > 2000
         THEN Note(Scored(a, "pm_score", 90), "Excellent profit margin")
    ELSE IF Pct(pm.v) > 1000
         THEN Note(Scored(a, "pm_score", 75), "Strong profit margin")
    ELSE IF Pct(pm.v) > 500 THEN Scored(a, "pm_score", 60)
    ELSE Weak(Scored(a, "pm_score", 30), "Low profit margin")

SA_fund_rg(a, f) ==
    LET rg == Get(f, "revenue_growth") IN
    IF a.fault THEN a
    ELSE IF ~Truthy(rg) THEN Scored(a, "rg_score", 50)
    ELSE IF rg.k = "str" THEN Raise(a)
    ELSE IF Pct(rg.v) > 2000
         THEN Note(Scored(a, "rg_score", 90), "Strong revenue growth")
    ELSE IF Pct(rg.v) > 1000 THEN Scored(a, "rg_score", 75)
    ELSE IF Pct(rg.v) > 500 THEN Scored(a, "rg_score", 60)
    ELSE IF Pct(rg.v) > 0 THEN Scored(a, "rg_score", 45)
    ELSE Weak(Scored(a, "rg_score", 20), "Negative revenue growth")

SA_fund_cr(a, f) ==
    LET cr == Get(f, "current_ratio") IN
    IF a.fault THEN a
    ELSE IF ~Truthy(cr) THEN Scored(a, "cr_score", 50)
    ELSE IF cr.k = "str" THEN Raise(a)
    ELSE IF cr.v > 250
         THEN Note(Scored(a, "cr_score", 80), "Strong liquidity position")
    ELSE IF cr.v > 150 THEN Scored(a, "cr_score", 70)
    ELSE IF cr.v > 100 THEN Scored(a, "cr_score", 50)
    ELSE Weak(Scored(a, "cr_score", 20), "Poor liquidity position")

\* `factors` is local until the last two assignments of the try block; the
\* strength and weakness notes are appended to `analysis` as they arise
SA_analyze_fundamentals(fundamentals) ==
    LET a == SA_fund_cr(SA_fund_rg(SA_fund_pm(SA_fund_de(SA_fund_roe(
                 SA_fund_pb(SA_fund_pe(Acc0, fundamentals), fundamentals),
                 fundamentals), fundamentals), fundamentals), fundamentals),
                 fundamentals)
    IN  IF fundamentals.k = "none"
        THEN [score |-> Pts(50), factors |-> EmptyMap,
              strength |-> <<>>, weakness |-> <<>>]
        ELSE [score |-> IF ~a.fault THEN Round2(Mean(a.sf)) ELSE Pts(50),
              factors |-> IF ~a.fault THEN a.map ELSE EmptyMap,
              strength |-> a.pos,
              weakness |-> a.neg]

\* ------------------------------------------------------------ price frames
\* A price DataFrame is described by what the scorers read from it: its
\* length, whether it has a close column, and the values of the windowed
\* quantities at the last bar.  Each quantity is read by a scorer only when
\* the code computes it for a frame of that length.
\*   close, ma20, ma50, ma200, bb_lower, bb_upper   cents
\*   rsi                                            hundredths (0 .. 10000)
\*   macd, macd_prev                                1/10000
\*   vol5, vol10, vol20, vol60                      mean volume of the tail
\*   ret5, ret20, ret60                             return in 1/100 percent
\*   volatility                                     annualized, in 1/10000
\*   pos10, pos30                                   up days in the tail
HasClose(price_df) == price_df.cols = "full"

\* recent / avg compared with a threshold given in tenths
RatioAbove(recent, avg, tenths) == recent * 10 > avg * tenths
RatioBelow(recent, avg, tenths) == recent * 10 < avg * tenths

\* ---------------------------------------------- TechnicalScorer (analysis.py)
PA_tech_ma(a, df) ==
    IF a.fault \/ df.bars < 200 THEN a
    ELSE IF ~HasClose(df) THEN Raise(a)
    ELSE LET a1 == IF df.ma50 > df.ma200
                   THEN Note(Factor(a, 70), "Bullish: MA50 above MA200")
                   ELSE Note(Factor(a, 30), "Bearish: MA50 below MA200")
             a2 == IF df.close > df.ma20 /\ df.ma20 > df.ma50
                   THEN Note(Factor(a1, 75), "Strong uptrend")
                   ELSE IF df.close < df.ma20 /\ df.ma20 < df.ma50
                   THEN Note(Factor(a1, 25), "Strong downtrend")
                   ELSE Factor(a1, 50)
         IN  Entry(a2, "ma_position", Num(df.close))

PA_tech_rsi(a, df, has_ta) ==
    IF a.fault \/ ~has_ta \/ df.bars < 14 THEN a
    ELSE IF ~HasClose(df) THEN Raise(a)
    ELSE LET a1 == IF df.rsi < 3000
                   THEN Note(Factor(a, 80),
                             "Oversold (RSI < 30) - potential buy")
                   ELSE IF df.rsi > 7000
                   THEN Note(Factor(a, 20),
                             "Overbought (RSI > 70) - potential sell")
                   ELSE IF 4000 < df.rsi /\ df.rsi < 6000 THEN Factor(a, 50)
                   ELSE IF df.rsi < 5000 THEN Factor(a, 60)
                   ELSE Factor(a, 40)
         IN  Entry(a1, "rsi", Num(df.rsi))

PA_tech_volume(a, df) ==
    IF a.fault \/ df.bars < 20 \/ ~(df.vol60 > 0) THEN a
    ELSE LET a1 == Entry(a, "volume_ratio", Num((df.vol10 * 100) \div df.vol60))
         IN  IF RatioAbove(df.vol10, df.vol60, 15)
             THEN Note(a1, "High volume - strong interest")
             ELSE IF RatioBelow(df.vol10, df.vol60, 7)
             THEN Note(a1, "Low volume - weak interest")
             ELSE a1

PA_calculate_technical_score(price_df, has_ta) ==
    LET a == PA_tech_volume(PA_tech_rsi(PA_tech_ma(Acc0, price_df),
                                        price_df, has_ta), price_df)
    IN  IF price_df.bars < 20
        THEN [score |-> Pts(50), indicators |-> EmptyMap, signals |-> <<>>]
        ELSE [score |-> IF ~a.fault /\ a.sf # <<>> THEN Mean(a.sf)
                        ELSE Pts(50),
              indicators |-> a.map,
              signals |-> a.pos]

\* ----------------------------------------------- MomentumScorer (analysis.py)
\* the month table with a lowest band of 10 instead of 20
PA_mom_month_low(a, df) ==
    IF a.fault \/ df.bars < 20 THEN a
    ELSE LET a1 == Entry(a, "1m_return", Num(df.ret20)) IN
         IF df.ret20 > 1000
         THEN Note(Factor(a1, 80), "Strong 1-month momentum")
         ELSE IF df.ret20 > 500 THEN Factor(a1, 65)
         ELSE IF df.ret20 > 0 THEN Factor(a1, 55)
         ELSE IF df.ret20 > -500 THEN Factor(a1, 45)
         ELSE Note(Factor(a1, 10), "Weak 1-month momentum")

PA_mom_month(a, df) ==
    IF a.fault \/ df.bars < 20 THEN a
    ELSE LET a1 == Entry(a, "1m_return", Num(df.ret20)) IN
         IF df.ret20 > 1000
         THEN Note(Factor(a1, 80), "Strong 1-month momentum")
         ELSE IF df.ret20 > 500 THEN Factor(a1, 65)
         ELSE IF df.ret20 > 0 THEN Factor(a1, 55)
         ELSE IF df.ret20 > -500 THEN Factor(a1, 45)
         ELSE Note(Factor(a1, 20), "Weak 1-month momentum")

PA_mom_quarter(a, df) ==
    IF a.fault \/ df.bars < 60 THEN a
    ELSE LET a1 == Entry(a, "3m_return", Num(df.ret60)) IN
         IF df.ret60 > 2000
         THEN Note(Factor(a1, 85), "Strong 3-month momentum")
         ELSE IF df.ret60 > 1000 THEN Factor(a1, 70)
         ELSE IF df.ret60 > 0 THEN Factor(a1, 55)
         ELSE Factor(a1, 30)

\* score_factors.append(score_factors[-1] * 0.8 if score_factors else 40)
PA_mom_volatility(a, df) ==
    IF a.fault \/ df.bars < 30 THEN a
    ELSE LET a1 == Entry(a, "volatility", Num(df.volatility)) IN
         IF df.volatility < 2500 THEN Note(a1, "Low volatility")
         ELSE IF df.volatility > 5000
         THEN Note(Factor(a1, IF a1.sf # <<>>
                              THEN (a1.sf[Len(a1.sf)] * 8) \div 10
                              ELSE 40),
                   "High volatility - increased risk")
         ELSE a1

PA_calculate_momentum_score(price_df) ==
    LET a0 == IF HasClose(price_df) THEN Acc0 ELSE Raise(Acc0)
        a == PA_mom_volatility(PA_mom_quarter(PA_mom_month(a0, price_df),
                                              price_df), price_df)
    IN  IF price_df.bars < 20
        THEN [score |-> Pts(50), metrics |-> EmptyMap, trends |-> <<>>]
        ELSE [score |-> IF ~a.fault /\ a.sf # <<>> THEN Mean(a.sf)
                        ELSE Pts(50),
              metrics |-> a.map,
              trends |-> a.pos]

\* ---------------------------------------------- SentimentScorer (analysis.py)
PA_sent_price(a, df) ==
    IF a.fault \/ df.bars < 10 THEN a
    ELSE IF ~HasClose(df) THEN Raise(a)
    ELSE LET a1 == IF df.pos10 > 7
                   THEN Note(Factor(a, 70), "Mostly positive recent days")
                   ELSE IF df.pos10 < 3
                   THEN Note(Factor(a, 30), "Mostly negative recent days")
                   ELSE Factor(a, 50)
         IN  Entry(a1, "positive_ratio", Num(df.pos10 * 10))

PA_sent_volume(a, df) ==
    IF a.fault \/ df.bars < 20 \/ ~(df.vol60 > 0) THEN a
    ELSE LET a1 == IF RatioAbove(df.vol10, df.vol60, 15)
                   THEN Note(Factor(a, 65), "High volume - strong interest")
                   ELSE IF RatioBelow(df.vol10, df.vol60, 7)
                   THEN Note(Factor(a, 45), "Low volume - weak interest")
                   ELSE Factor(a, 55)
         IN  Entry(a1, "volume_ratio", Num((df.vol10 * 100) \div df.vol60))

\* market_cap in millions of dollars
PA_sent_market_cap(a, f) ==
    LET market_cap == Get(f, "market_cap") IN
    IF a.fault THEN a
    ELSE IF f.k = "none" THEN Raise(a)
    ELSE IF ~Truthy(market_cap) THEN a
    ELSE IF market_cap.k = "str" THEN Raise(a)
    ELSE IF market_cap.v > 10000
         THEN Note(Factor(a, 70), "Large cap - lower risk")
    ELSE IF market_cap.v > 2000 THEN Factor(a, 60)
    ELSE IF market_cap.v > 300 THEN Factor(a, 50)
    ELSE Note(Factor(a, 40), "Micro cap - higher risk")

PA_calculate_sentiment_score(price_df, fundamentals) ==
    LET a == PA_sent_market_cap(PA_sent_volume(PA_sent_price(Acc0, price_df),
                                               price_df), fundamentals)
    IN  [score |-> IF ~a.fault /\ a.sf # <<>> THEN Mean(a.sf) ELSE Pts(50),
         indicators |-> a.pos,
         factors |-> a.map]

\* ---------------------------------------- TechnicalScorer (stock_analyzer.py)
\* The ta indicators are NaN until their window is filled: SMA-n needs n
\* bars, RSI 14, the MACD histogram 26 + 9 - 1 = 34, the bands 20.
SA_tech_ma(a, df) ==
    IF a.fault \/ df.bars < 50 THEN a
    ELSE IF df.close > df.ma20 /\ df.ma20 > df.ma50
         THEN Note(Factor(a, 80),
                   "Price above short and medium-term MAs - Bullish")
    ELSE IF df.close > df.ma20
         THEN Note(Factor(a, 65),
                   "Price above 20-day MA - Short-term bullish")
    ELSE IF df.close < df.ma20 /\ df.ma20 < df.ma50
         THEN Note(Factor(a, 20),
                   "Price below short and medium-term MAs - Bearish")
    ELSE Factor(a, 45)

SA_tech_rsi(a, df) ==
    IF a.fault \/ df.bars < 14 THEN a
    ELSE LET a1 == IF df.rsi < 3000
                   THEN Note(Factor(a, 75),
                             "RSI oversold - Potential buying opportunity")
                   ELSE IF df.rsi > 7000
                   THEN Note(Factor(a, 25),
                             "RSI overbought - Potential selling pressure")
                   ELSE IF 4000 <= df.rsi /\ df.rsi <= 6000 THEN Factor(a, 60)
                   ELSE Factor(a, 50)
         IN  Entry(a1, "rsi", Num(df.rsi))

SA_tech_macd(a, df) ==
    IF a.fault \/ df.bars < 34 THEN a
    ELSE LET macd_current == df.macd
             macd_prev == IF df.bars >= 35 THEN df.macd_prev ELSE df.macd
             a1 == IF macd_current > 0 /\ macd_current > macd_prev
                   THEN Note(Factor(a, 75),
                             "MACD positive and rising - Bullish momentum")
                   ELSE IF macd_current > 0 THEN Factor(a, 60)
                   ELSE IF macd_current < 0 /\ macd_current < macd_prev
                   THEN Note(Factor(a, 25),
                             "MACD negative and falling - Bearish momentum")
                   ELSE Factor(a, 40)
         IN  Entry(a1, "macd", Num(macd_current))

\* bb_position = (price - lower) / (upper - lower) on numpy floats: with
\* upper = lower it is NaN, every comparison is false and the else branch
\* scores 50
SA_tech_bb(a, df) ==
    IF a.fault \/ df.bars < 20 THEN a
    ELSE LET width == df.bb_upper - df.bb_lower
             off == df.close - df.bb_lower
         IN  IF width = 0 THEN Entry(Factor(a, 50), "bb_position", None)
             ELSE IF off * 10 < width * 2
             THEN Entry(Note(Factor(a, 75),
                             "Price near lower Bollinger Band - Oversold"),
                        "bb_position", Num((off * 1000) \div width))
             ELSE IF off * 10 > width * 8
             THEN Entry(Note(Factor(a, 25),
                             "Price near upper Bollinger Band - Overbought"),
                        "bb_position", Num((off * 1000) \div width))
             ELSE Entry(Factor(a, 50), "bb_position",
                        Num((off * 1000) \div width))

SA_tech_volume(a, df) ==
    IF a.fault \/ df.bars < 20 THEN a
    ELSE IF RatioAbove(df.vol5, df.vol20, 15)
         THEN Note(Factor(a, 70), "Above-average volume - Strong interest")
    ELSE IF RatioBelow(df.vol5, df.vol20, 5)
         THEN Note(Factor(a, 40), "Below-average volume - Weak interest")
    ELSE Factor(a, 55)

SA_tech_trend(df) ==
    IF df.bars < 20 THEN EmptyMap
    ELSE [x \in {"20d"} |->
             IF df.ret20 > 1000 THEN "Strong Uptrend"
             ELSE IF df.ret20 > 500 THEN "Uptrend"
             ELSE IF df.ret20 < -1000 THEN "Strong Downtrend"
             ELSE IF df.ret20 < -500 THEN "Downtrend"
             ELSE "Sideways"]

\* indicators.update({'sma_20': .., 'sma_50': .., 'current_price': ..})
SA_tech_store(a, df) ==
    IF a.fault THEN a
    ELSE Entry(Entry(Entry(a,
             "sma_20", IF df.bars >= 20 THEN Num(df.ma20) ELSE None),
             "sma_50", IF df.bars >= 50 THEN Num(df.ma50) ELSE None),
             "current_price", Num(df.close))

SA_analyze_technical(price_df) ==
    LET a0 == IF price_df.bars = 0 \/ ~HasClose(price_df)
              THEN Raise(Acc0) ELSE Acc0
        a == SA_tech_store(SA_tech_volume(SA_tech_bb(SA_tech_macd(
                 SA_tech_rsi(SA_tech_ma(a0, price_df), price_df), price_df),
                 price_df), price_df), price_df)
    IN  [score |-> IF ~a.fault /\ a.sf # <<>> THEN Round2(Mean(a.sf))
                   ELSE Pts(50),
         indicators |-> a.map,
         signals |-> a.pos,
         trends |-> IF a.fault THEN EmptyMap ELSE SA_tech_trend(price_df)]

\* ----------------------------------------- MomentumScorer (stock_analyzer.py)
SA_mom_5d(a, df) ==
    IF a.fault \/ df.bars < 5 THEN a
    ELSE LET a1 == IF df.ret5 > 500
                   THEN Note(Factor(a, 80), "Strong 5-day momentum")
                   ELSE IF df.ret5 > 200
                   THEN Note(Factor(a, 65), "Positive 5-day momentum")
                   ELSE IF df.ret5 < -500
                   THEN Note(Factor(a, 20), "Weak 5-day momentum")
                   ELSE IF df.ret5 < -200
                   THEN Note(Factor(a, 35), "Negative 5-day momentum")
                   ELSE Factor(a, 50)
         IN  Entry(a1, "momentum_5d", Num(df.ret5))

SA_mom_20d(a, df) ==
    IF a.fault \/ df.bars < 20 THEN a
    ELSE LET a1 == IF df.ret20 > 1000
                   THEN Note(Factor(a, 85), "Strong 20-day momentum")
                   ELSE IF df.ret20 > 500
                   THEN Note(Factor(a, 70), "Positive 20-day momentum")
                   ELSE IF df.ret20 < -1000
                   THEN Note(Factor(a, 15), "Weak 20-day momentum")
                   ELSE IF df.ret20 < -500
                   THEN Note(Factor(a, 30), "Negative 20-day momentum")
                   ELSE Factor(a, 50)
         IN  Entry(a1, "momentum_20d", Num(df.ret20))

SA_mom_60d(a, df) ==
    IF a.fault \/ df.bars < 60 THEN a
    ELSE LET a1 == IF df.ret60 > 2000
                   THEN Note(Factor(a, 90), "Excellent 60-day momentum")
                   ELSE IF df.ret60 > 1000
                   THEN Note(Factor(a, 75), "Strong 60-day momentum")
                   ELSE IF df.ret60 < -2000
                   THEN Note(Factor(a, 10), "Poor 60-day momentum")
                   ELSE IF df.ret60 < -1000
                   THEN Note(Factor(a, 25), "Negative 60-day momentum")
                   ELSE Factor(a, 50)
         IN  Entry(a1, "momentum_60d", Num(df.ret60))

\* volatility is compared in percent: < 20 and > 50
SA_mom_volatility(a, df) ==
    IF a.fault \/ df.bars < 30 THEN a
    ELSE LET m20 == IF "momentum_20d" \in DOMAIN a.map
                    THEN a.map["momentum_20d"].v ELSE 0
             a1 == IF df.volatility < 2000 /\ m20 > 0
                   THEN Note(Factor(a, 70),
                             "Low volatility with positive momentum")
                   ELSE IF df.volatility > 5000
                   THEN Note(Factor(a, 30), "High volatility - risky")
                   ELSE Factor(a, 50)
         IN  Entry(a1, "volatility_annual", Num(df.volatility))

SA_analyze_momentum(price_df) ==
    LET a0 == IF HasClose(price_df) THEN Acc0 ELSE Raise(Acc0)
        a1 == SA_mom_volatility(SA_mom_60d(SA_mom_20d(SA_mom_5d(a0, price_df),
                  price_df), price_df), price_df)
        a == IF a1.fault THEN a1
             ELSE Entry(a1, "relative_strength", Num(5000))
    IN  IF price_df.bars < 20
        THEN [score |-> Pts(50), metrics |-> EmptyMap, trends |-> <<>>]
        ELSE [score |-> IF ~a.fault /\ a.sf # <<>> THEN Round2(Mean(a.sf))
                        ELSE Pts(50),
              metrics |-> a.map,
              trends |-> a.pos]

\* ---------------------------------------- SentimentScorer (stock_analyzer.py)
RatingScore(rating) ==
    IF rating.k # "str" THEN 50
    ELSE IF rating.s \in {"STRONG_BUY", "strong_buy"} THEN 90
    ELSE IF rating.s \in {"Buy", "BUY"} THEN 75
    ELSE IF rating.s \in {"HOLD", "hold", "Hold"} THEN 50
    ELSE IF rating.s \in {"SELL", "sell", "Sell"} THEN 25
    ELSE IF rating.s \in {"STRONG_SELL", "strong_sell"} THEN 10
    ELSE 50

SectorScore(sector) ==
    IF sector.k # "str" THEN 50
    ELSE IF sector.s = "Technology" THEN 70
    ELSE IF sector.s = "Healthcare" THEN 65
    ELSE IF sector.s \in {"Consumer Discretionary", "Consumer Staples",
                          "Communication Services"} THEN 60
    ELSE IF sector.s \in {"Financials", "Industrials"} THEN 55
    ELSE IF sector.s = "Energy" THEN 45
    ELSE 50

SA_sent_analyst(a, f) ==
    LET analyst_rating == Get(f, "analyst_rating") IN
    IF a.fault \/ ~Truthy(analyst_rating) THEN a
    ELSE Entry(Note(Factor(a, RatingScore(analyst_rating)), "Analyst rating"),
               "analyst_rating", Num(RatingScore(analyst_rating)))

SA_sent_market_cap(a, f) ==
    LET market_cap == Get(f, "market_cap") IN
    IF a.fault \/ ~Truthy(market_cap) THEN a
    ELSE IF market_cap.k = "str" THEN Raise(a)
    ELSE IF market_cap.v > 200000
         THEN Entry(Note(Factor(a, 65), "Large cap - stable"),
                    "market_cap_sentiment", Num(65))
    ELSE IF market_cap.v > 10000
         THEN Entry(Note(Factor(a, 60), "Mid-large cap"),
                    "market_cap_sentiment", Num(60))
    ELSE IF market_cap.v > 2000
         THEN Entry(Note(Factor(a, 55), "Mid cap"),
                    "market_cap_sentiment", Num(55))
    ELSE Entry(Note(Factor(a, 45), "Small cap - higher risk"),
               "market_cap_sentiment", Num(45))

SA_sent_sector(a, f) ==
    LET sector == Get(f, "sector") IN
    IF a.fault \/ ~Truthy(sector) THEN a
    ELSE Entry(Note(Factor(a, SectorScore(sector)), "Sector sentiment"),
               "sector_sentiment", Num(SectorScore(sector)))

\* positive_ratio = positive_days / 30
SA_sent_performance(a, df) ==
    IF a.fault \/ df.bars < 30 THEN a
    ELSE IF ~HasClose(df) THEN Raise(a)
    ELSE LET a1 == IF df.pos30 * 10 > 30 * 6
                   THEN Note(Factor(a, 70), "Strong recent performance")
                   ELSE IF df.pos30 * 10 > 30 * 5 THEN Factor(a, 60)
                   ELSE IF df.pos30 * 10 < 30 * 4
                   THEN Note(Factor(a, 40), "Weak recent performance")
                   ELSE Factor(a, 50)
         IN  Entry(a1, "performance_sentiment",
                   Num((df.pos30 * 1000) \div 30))

\* volume_ratio = recent_volume / avg_volume if avg_volume > 0 else 1
SA_sent_volume(a, df) ==
    IF a.fault \/ df.bars < 20 THEN a
    ELSE LET recent == IF df.vol60 > 0 THEN df.vol10 ELSE 1
             avg == IF df.vol60 > 0 THEN df.vol60 ELSE 1
             a1 == IF RatioAbove(recent, avg, 15)
                   THEN Note(Factor(a, 65), "High volume - strong interest")
                   ELSE IF RatioBelow(recent, avg, 7)
                   THEN Note(Factor(a, 45), "Low volume - weak interest")
                   ELSE Factor(a, 55)
         IN  Entry(a1, "volume_sentiment", Num((recent * 100) \div avg))

SA_analyze_sentiment(fundamentals, price_df) ==
    LET a0 == IF fundamentals.k = "none" THEN Raise(Acc0) ELSE Acc0
        a == SA_sent_volume(SA_sent_performance(SA_sent_sector(
                 SA_sent_market_cap(SA_sent_analyst(a0, fundamentals),
                 fundamentals), fundamentals), price_df), price_df)
    IN  [score |-> IF ~a.fault /\ a.sf # <<>> THEN Round2(Mean(a.sf))
                   ELSE Pts(50),
         factors |-> a.map,
         indicators |-> a.pos]

\* -------------------------------------------------------------- RiskAssessor
VolatilityPoints(v) ==
    IF v > 5000 THEN 30 ELSE IF v > 3500 THEN 20 ELSE IF v > 2500 THEN 10 ELSE 0

\* the classification with the two middle labels exchanged
RiskClass_swapped(risk_score) ==
    IF risk_score > 60 THEN "VERY_HIGH"
    ELSE IF risk_score > 40 THEN "MEDIUM"
    ELSE IF risk_score > 20 THEN "HIGH"
    ELSE "LOW"

RiskClass(risk_score) ==
    IF risk_score > 60 THEN "VERY_HIGH"
    ELSE IF risk_score > 40 THEN "HIGH"
    ELSE IF risk_score > 20 THEN "MEDIUM"
    ELSE "LOW"

\* analysis.py _assess_risk, the four additions to risk_score in the order
\* of the code; each is 0 when its guard is false
PA_risk_steps(price_df, fundamentals, technical_analysis) ==
    LET debt_to_equity == Get(fundamentals, "debt_to_equity")
        market_cap == Get(fundamentals, "market_cap")
        rsi == Get(Dict(technical_analysis.indicators), "rsi")
    IN  [vol |-> IF price_df.bars >= 30
                 THEN VolatilityPoints(price_df.volatility) ELSE 0,
         de |-> IF Truthy(debt_to_equity) /\ debt_to_equity.v > 100 THEN 20
                ELSE IF Truthy(debt_to_equity) /\ debt_to_equity.v > 50
                THEN 10 ELSE 0,
         rsi |-> IF Truthy(rsi) /\ (rsi.v > 7500 \/ rsi.v < 2500)
                 THEN 15 ELSE 0,
         cap |-> IF Truthy(market_cap) /\ market_cap.v < 300 THEN 25
                 ELSE IF Truthy(market_cap) /\ market_cap.v < 2000 THEN 15
                 ELSE 0]

\* the statement of _assess_risk that raises, or "none": the read of the
\* close column, fundamentals.get on None, or the comparison of a string
\* with a number
PA_risk_fault(price_df, fundamentals) ==
    IF price_df.bars >= 30 /\ ~HasClose(price_df) THEN "volatility"
    ELSE IF fundamentals.k = "none" THEN "debt_to_equity"
    ELSE IF PositiveFaults(Get(fundamentals, "debt_to_equity"))
    THEN "debt_to_equity"
    ELSE IF PositiveFaults(Get(fundamentals, "market_cap")) THEN "market_cap"
    ELSE "none"

\* the value of risk_score when _assess_risk returns
PA_risk_score(price_df, fundamentals, technical_analysis) ==
    LET fault == PA_risk_fault(price_df, fundamentals)
        p == IF fault = "volatility" THEN [vol |-> 0]
             ELSE IF fault = "debt_to_equity"
             THEN [vol |-> IF price_df.bars >= 30
                           THEN VolatilityPoints(price_df.volatility) ELSE 0]
             ELSE PA_risk_steps(price_df, fundamentals, technical_analysis)
    IN  IF fault = "volatility" THEN 0
        ELSE IF fault = "debt_to_equity" THEN p.vol
        ELSE IF fault = "market_cap" THEN p.vol + p.de + p.rsi
        ELSE p.vol + p.de + p.rsi + p.cap

\* analysis.py: points accumulation; any exception returns MEDIUM
PA_assess_risk(price_df, fundamentals, technical_analysis) ==
    IF PA_risk_fault(price_df, fundamentals) # "none" THEN "MEDIUM"
    ELSE RiskClass(PA_risk_score(price_df, fundamentals, technical_analysis))

\* stock_analyzer.py: one LOW/MEDIUM/HIGH vote per available factor
SA_risk_votes(price_df, fundamentals, technical_analysis) ==
    LET debt_to_equity == Get(fundamentals, "debt_to_equity")
        rsi == Get(Dict(technical_analysis.indicators), "rsi")
        v1 == IF price_df.bars < 30 THEN <<>>
              ELSE IF price_df.volatility > 4000 THEN <<"HIGH">>
              ELSE IF price_df.volatility > 2500 THEN <<"MEDIUM">>
              ELSE <<"LOW">>
        v2 == IF ~Truthy(debt_to_equity) THEN <<>>
              ELSE IF debt_to_equity.v > 100 THEN <<"HIGH">>
              ELSE IF debt_to_equity.v > 50 THEN <<"MEDIUM">>
              ELSE <<"LOW">>
        v3 == IF ~Truthy(rsi) THEN <<>>
              ELSE IF rsi.v > 8000 \/ rsi.v < 2000 THEN <<"HIGH">>
              ELSE IF rsi.v > 7000 \/ rsi.v < 3000 THEN <<"MEDIUM">>
              ELSE <<"LOW">>
    IN  v1 \o v2 \o v3

SA_assess_risk(price_df, fundamentals, technical_analysis) ==
    LET risk_factors == SA_risk_votes(price_df, fundamentals,
                                      technical_analysis)
        Count(label) ==
            Cardinality({i \in 1 .. Len(risk_factors) : risk_factors[i] = label})
    IN  IF (price_df.bars >= 30 /\ ~HasClose(price_df))
           \/ fundamentals.k = "none"
           \/ (Get(fundamentals, "debt_to_equity").k = "str"
               /\ Truthy(Get(fundamentals, "debt_to_equity")))
        THEN "MEDIUM"
        ELSE IF Count("HIGH") >= 2 THEN "VERY_HIGH"
        ELSE IF Count("HIGH") >= 1 THEN "HIGH"
        ELSE IF Count("MEDIUM") >= 2 THEN "HIGH"
        ELSE IF Count("MEDIUM") >= 1 THEN "MEDIUM"
        ELSE "LOW"

\* ------------------------------------------------------------------------
\* SpecRisk: analysis.py _assess_risk on values on both sides of every
\* threshold it tests, with absent, zero and non-numeric inputs.
\* ------------------------------------------------------------------------
\* annualized volatility in 1/10000
RiskVolatilities == {0, 2500, 2501, 3500, 3501, 5000, 5001}

\* debt_to_equity in hundredths
RiskDebts == {None, Num(0), Num(50), Num(51), Num(100), Num(101), Bad}

\* RSI in hundredths; None: the indicators map has no rsi entry
RiskRSIs ==
    {None, Num(0), Num(2499), Num(2500), Num(5000), Num(7500), Num(7501),
     Num(10000)}

\* market_cap in millions of dollars
RiskCaps ==
    {None, Num(0), Num(299), Num(300), Num(1999), Num(2000), Num(50000), Bad}

RiskFrames ==
    {[bars |-> b, cols |-> "full", volatility |-> v] :
        b \in {10, 30}, v \in RiskVolatilities}
    \cup {[bars |-> 30, cols |-> "noClose", volatility |-> 0]}

RiskFundamentals ==
    {Dict([debt_to_equity |-> d, market_cap |-> c]) :
        d \in RiskDebts, c \in RiskCaps}
    \cup {NoneDict}

RiskTechnicals ==
    {[indicators |-> IF r = None THEN EmptyMap ELSE [rsi |-> r]] :
        r \in RiskRSIs}

RiskInputs ==
    [price_df : RiskFrames, fundamentals : RiskFundamentals,
     technical_analysis : RiskTechnicals]

InitRisk ==
    /\ impl = "PA"
    /\ hasTA = TRUE
    /\ pc = "call"
    /\ req \in RiskInputs
    /\ res = None
    /\ outcome = "none"
    /\ invoked = {}
    /\ scoring_weights = DefaultWeights
    /\ locals = <<>>
    /\ history = <<>>

AssessRiskPA ==
    /\ pc = "call"
    /\ impl = "PA"
    /\ res' = PA_assess_risk(req.price_df, req.fundamentals,
                             req.technical_analysis)
    /\ outcome' = "returned"
    /\ pc' = "done"
    /\ UNCHANGED <<impl, hasTA, scoring_weights, req, invoked, locals, history>>

NextRisk == AssessRiskPA

SpecRisk == InitRisk /\ [][NextRisk]_vars

\* the risk points as the design states them: every present value counts
C11_Points(q) ==
    LET d == Get(q.fundamentals, "debt_to_equity")
        c == Get(q.fundamentals, "market_cap")
        r == Get(Dict(q.technical_analysis.indicators), "rsi")
        v == q.price_df.volatility
    IN  (IF q.price_df.bars < 30 THEN 0
         ELSE IF v > 5000 THEN 30 ELSE IF v > 3500 THEN 20
         ELSE IF v > 2500 THEN 10 ELSE 0)
        + (IF d.k # "num" THEN 0
           ELSE IF d.v > 100 THEN 20 ELSE IF d.v > 50 THEN 10 ELSE 0)
        + (IF r.k = "num" /\ (r.v > 7500 \/ r.v < 2500) THEN 15 ELSE 0)
        + (IF c.k # "num" THEN 0
           ELSE IF c.v < 300 THEN 25 ELSE IF c.v < 2000 THEN 15 ELSE 0)

C11_Label(points) ==
    IF points > 60 THEN "VERY_HIGH"
    ELSE IF points > 40 THEN "HIGH"
    ELSE IF points > 20 THEN "MEDIUM"
    ELSE "LOW"

\* C11: on inputs that are numeric or absent, _assess_risk returns the
\* label of the points +30/+20/+10 for volatility > 0.5/0.35/0.25, +20/+10
\* for debt_to_equity > 1.0/0.5, +15 for every oscillator value > 75 or
\* < 25 (0 and 100 included), +25/+15 for every present market_cap below
\* $300M/$2B, a missing input adding 0; > 60 VERY_HIGH, > 40 HIGH, > 20
\* MEDIUM, else LOW.
C11_PointsAccumulation ==
    (/\ pc = "done"
     /\ PA_risk_fault(req.price_df, req.fundamentals) = "none") =>
        res = C11_Label(C11_Points(req))

\* ranks of the labels in the order LOW < MEDIUM < HIGH < VERY_HIGH
C12_Rank(label) ==
    CASE label = "LOW" -> 1
      [] label = "MEDIUM" -> 2
      [] label = "HIGH" -> 3
      [] label = "VERY_HIGH" -> 4
      [] OTHER -> 0

C12_Faults(q) == PA_risk_fault(q.price_df, q.fundamentals) # "none"

C12_Score(q) ==
    PA_risk_score(q.price_df, q.fundamentals, q.technical_analysis)

C12_Risk(q) ==
    PA_assess_risk(q.price_df, q.fundamentals, q.technical_analysis)

\* <<risk_score, label>> of every input, and of every input on which no
\* statement of _assess_risk raises
C12_AllOutcomes == {<<C12_Score(q), C12_Risk(q)>> : q \in RiskInputs}
C12_CleanOutcomes ==
    {<<C12_Score(q), C12_Risk(q)>> : q \in {i \in RiskInputs : ~C12_Faults(i)}}

RECURSIVE SqrtSearch(_, _, _)
SqrtSearch(n, lo, hi) ==
    IF lo >= hi THEN lo
    ELSE LET mid == (lo + hi + 1) \div 2
         IN  IF mid * mid <= n THEN SqrtSearch(n, mid, hi)
             ELSE SqrtSearch(n, lo, mid - 1)

\* floor of the square root
ISqrt(n) == SqrtSearch(n, 0, 46340)

\* 16 x the population variance of four scores taken in hundredths:
\* 4 * sum(x^2) - (sum x)^2
Var16(scores) ==
    LET x == [i \in 1 .. 4 |-> scores[i] \div Hundredth]
        sum == x[1] + x[2] + x[3] + x[4]
        sq == x[1] * x[1] + x[2] * x[2] + x[3] * x[3] + x[4] * x[4]
    IN  4 * sq - sum * sum

Min(a, b) == IF a < b THEN a ELSE b
Max(a, b) == IF a > b THEN a ELSE b

\* len(d) / n * 100 in score units
Completeness(d, n) == (Cardinality(DOMAIN d) * 100 * Unit) \div n

\* the completeness entries of the dimensions whose map is non-empty; only
\* the fundamental entry has no min(.., 100)
PA_data_completeness(fundamental, technical, momentum, sentiment) ==
    (IF fundamental.factors # EmptyMap
     THEN <<Completeness(fundamental.factors, 6)>> ELSE <<>>)
    \o (IF technical.indicators # EmptyMap
        THEN <<Min(Completeness(technical.indicators, 4), Pts(100))>>
        ELSE <<>>)
    \o (IF momentum.metrics # EmptyMap
        THEN <<Min(Completeness(momentum.metrics, 3), Pts(100))>> ELSE <<>>)
    \o (IF sentiment.factors # EmptyMap
        THEN <<Min(Completeness(sentiment.factors, 3), Pts(100))>> ELSE <<>>)

\* the blend before the final min(confidence, 100)
PA_confidence_blend(fundamental, technical, momentum, sentiment) ==
    LET data_completeness ==
            PA_data_completeness(fundamental, technical, momentum, sentiment)
        base_confidence ==
            IF data_completeness # <<>>
            THEN SumSeq(data_completeness) \div Len(data_completeness)
            ELSE Pts(50)
        \* 2 * np.std(scores), in hundredths (square root rounded down)
        twice_std == ISqrt(Var16(<<fundamental.score, technical.score,
                                   momentum.score, sentiment.score>>)) \div 2
        agreement_factor == Max(0, 10000 - twice_std) * Hundredth
    IN  (base_confidence * 6 + agreement_factor * 4) \div 10

PA_calculate_confidence_nocap(fundamental, technical, momentum, sentiment) ==
    PA_confidence_blend(fundamental, technical, momentum, sentiment)

PA_calculate_confidence(fundamental, technical, momentum, sentiment) ==
    Min(PA_confidence_blend(fundamental, technical, momentum, sentiment),
        Pts(100))

\* stock_analyzer.py: a lookup on the standard deviation alone; std < t is
\* decided exactly as 16 var < 16 t^2
SA_calculate_confidence(fundamental, technical, momentum, sentiment) ==
    LET v == Var16(<<fundamental.score, technical.score,
                     momentum.score, sentiment.score>>)
    IN  IF v < 16 * 1000 * 1000 THEN Pts(90)
        ELSE IF v < 16 * 1500 * 1500 THEN Pts(80)
        ELSE IF v < 16 * 2000 * 2000 THEN Pts(70)
        ELSE IF v < 16 * 2500 * 2500 THEN Pts(60)
        ELSE Pts(50)

\* ------------------------------------------------------------------------
\* SpecConf: _calculate_confidence on four dimension results with scores
\* from ConfScores and 0 .. MaxFactors / 0 .. MaxEntries populated entries.
\* ------------------------------------------------------------------------
MaxFactors == 7
MaxEntries == 4

\* scores in hundredths
ConfScores == {0, 5000, 10000}

\* a map with n entries
Filled(n) == [i \in 1 .. n |-> Num(0)]

InitConf ==
    /\ impl \in Impls
    /\ hasTA = TRUE
    /\ pc = "call"
    /\ req \in [scores : [1 .. 4 -> ConfScores],
                n_fund : 0 .. MaxFactors, n_tech : 0 .. MaxEntries,
                n_mom : 0 .. MaxEntries, n_sent : 0 .. MaxEntries]
    /\ impl = "SA" =>
           /\ req.n_fund = 0 /\ req.n_tech = 0
           /\ req.n_mom = 0 /\ req.n_sent = 0
    /\ res = None
    /\ outcome = "none"
    /\ invoked = {}
    /\ scoring_weights = DefaultWeights
    /\ locals = <<>>
    /\ history = <<>>

ConfFundamental == [score |-> req.scores[1] * Hundredth,
                    factors |-> Filled(req.n_fund)]
ConfTechnical == [score |-> req.scores[2] * Hundredth,
                  indicators |-> Filled(req.n_tech)]
ConfMomentum == [score |-> req.scores[3] * Hundredth,
                 metrics |-> Filled(req.n_mom)]
ConfSentiment == [score |-> req.scores[4] * Hundredth,
                  factors |-> Filled(req.n_sent)]

CalculateConfidencePA ==
    /\ pc = "call"
    /\ impl = "PA"
    /\ res' = PA_calculate_confidence(ConfFundamental, ConfTechnical,
                                      ConfMomentum, ConfSentiment)
    /\ outcome' = "returned"
    /\ pc' = "done"
    /\ UNCHANGED <<impl, hasTA, scoring_weights, req, invoked, locals, history>>

CalculateConfidenceSA ==
    /\ pc = "call"
    /\ impl = "SA"
    /\ res' = SA_calculate_confidence(ConfFundamental, ConfTechnical,
                                      ConfMomentum, ConfSentiment)
    /\ outcome' = "returned"
    /\ pc' = "done"
    /\ UNCHANGED <<impl, hasTA, scoring_weights, req, invoked, locals, history>>

NextConf == CalculateConfidencePA \/ CalculateConfidenceSA

SpecConf == InitConf /\ [][NextConf]_vars

\* C3: whatever the four scores in [0,100] and however many entries each
\* dimension has populated, the confidence returned lies in [0,100].
C3_ConfidenceRange ==
    pc = "done" => (0 <= res /\ res <= 100 * Unit)

\* seven fundamental factors and full maps elsewhere with agreeing scores:
\* the blend exceeds 100 and the result is exactly 100
C3_Witness ==
    /\ pc = "done"
    /\ impl = "PA"
    /\ req.n_fund = 7
    /\ req.n_tech = 4
    /\ req.scores = [i \in 1 .. 4 |-> 5000]
    /\ res = 100 * Unit

\* completeness as the design states it: the mean over all four
\* dimensions of the populated fraction, an unpopulated dimension counting 0
C16_Completeness ==
    (Min(Completeness(ConfFundamental.factors, 6), Pts(100))
     + Min(Completeness(ConfTechnical.indicators, 4), Pts(100))
     + Min(Completeness(ConfMomentum.metrics, 3), Pts(100))
     + Min(Completeness(ConfSentiment.factors, 3), Pts(100))) \div 4

\* max(0, 100 - 2 x stdev of the four scores)
C16_Agreement ==
    Max(0, 10000 - ISqrt(Var16([i \in 1 .. 4 |-> req.scores[i] * Hundredth]))
                     \div 2) * Hundredth

\* C16: analysis.py _calculate_confidence returns 0.6 x completeness + 0.4 x
\* agreement clamped to [0,100], completeness being the mean over all four
\* dimensions of the populated fraction (an unpopulated dimension counts
\* as 0) and agreement max(0, 100 - 2 x stdev of the four scores).
C16_ConfidenceFormula ==
    (pc = "done" /\ impl = "PA") =>
        res = Min(Max((C16_Completeness * 6 + C16_Agreement * 4) \div 10, 0),
                  Pts(100))

\* ------------------------------------------------------ AnalysisOrchestrator
\* pd.DataFrame([]) : no rows and no columns
EmptyFrame == [bars |-> 0, cols |-> "none"]

\* stock_data.get(key, default)
StockGet(stock_data, key, default) ==
    IF key \in DOMAIN stock_data THEN stock_data[key] ELSE default

\* the first weight the weighted sum reads that the mapping lacks, or ""
MissingWeight(weights) ==
    IF "fundamental" \notin DOMAIN weights THEN "fundamental"
    ELSE IF "technical" \notin DOMAIN weights THEN "technical"
    ELSE IF "momentum" \notin DOMAIN weights THEN "momentum"
    ELSE IF "sentiment" \notin DOMAIN weights THEN "sentiment"
    ELSE ""

\* str(KeyError(key))
KeyError(key) == Str("'" \o key \o "'")

\* the weighted sum with the percent weights left unscaled
WeightedScore_unscaled(w, f, t, m, s) ==
    f.score * w.fundamental + t.score * w.technical
    + m.score * w.momentum + s.score * w.sentiment

WeightedScore(w, f, t, m, s) ==
    (f.score * w.fundamental + t.score * w.technical
     + m.score * w.momentum + s.score * w.sentiment) \div 100

\* analysis.py analyze_stock from its local variables l on: the whole body is
\* one try block.  The statements of the block that can raise on a mapping argument are the
\* read of a weight the analyzer's mapping lacks and the read of the last
\* close from a non-empty frame without a close column; every scorer and
\* helper catches its own exceptions.
PA_result(l, weights) ==
    LET symbol == l.symbol
        price_df == l.price_df
        fundamentals == l.fundamentals
        fundamental_analysis == l.fundamental_analysis
        technical_analysis == l.technical_analysis
        momentum_analysis == l.momentum_analysis
        sentiment_analysis == l.sentiment_analysis
        overall_score ==
            WeightedScore(weights, fundamental_analysis,
                          technical_analysis, momentum_analysis,
                          sentiment_analysis)
        current_price == IF price_df.bars > 0 THEN price_df.close ELSE 0
    IN  IF MissingWeight(weights) # ""
        THEN [symbol |-> symbol,
              error |-> KeyError(MissingWeight(weights)),
              overall_score |-> Pts(50),
              recommendation |-> "HOLD",
              analysis_date |-> Str("now")]
        ELSE IF price_df.bars > 0 /\ ~HasClose(price_df)
        THEN [symbol |-> symbol,
              error |-> Str("'close'"),
              overall_score |-> Pts(50),
              recommendation |-> "HOLD",
              analysis_date |-> Str("now")]
        ELSE [symbol |-> symbol,
              overall_score |-> Round2(overall_score),
              recommendation |-> PA_get_recommendation(overall_score),
              fundamental_score |-> Round2(fundamental_analysis.score),
              technical_score |-> Round2(technical_analysis.score),
              momentum_score |-> Round2(momentum_analysis.score),
              sentiment_score |-> Round2(sentiment_analysis.score),
              risk_level |-> PA_assess_risk(price_df, fundamentals,
                                            technical_analysis),
              target_price |-> PA_calculate_target_price(
                                   current_price, fundamentals, overall_score),
              current_price |-> current_price,
              confidence |-> Round2(PA_calculate_confidence(
                                 fundamental_analysis, technical_analysis,
                                 momentum_analysis, sentiment_analysis)),
              analysis_date |-> Str("now"),
              details |-> [fundamental |-> fundamental_analysis,
                           technical |-> technical_analysis,
                           momentum |-> momentum_analysis,
                           sentiment |-> sentiment_analysis]]

\* the local variables of analysis.py analyze_stock once the four scorers
\* have returned
PA_locals(stock_data, has_ta) ==
    LET price_df == StockGet(stock_data, "price_data", EmptyFrame)
        fundamentals == StockGet(stock_data, "fundamentals", Dict(EmptyMap))
    IN  [symbol |-> StockGet(stock_data, "symbol", "UNKNOWN"),
         price_df |-> price_df,
         fundamentals |-> fundamentals,
         fundamental_analysis |-> PA_calculate_fundamental_score(fundamentals),
         technical_analysis |-> PA_calculate_technical_score(price_df, has_ta),
         momentum_analysis |-> PA_calculate_momentum_score(price_df),
         sentiment_analysis |->
             PA_calculate_sentiment_score(price_df, fundamentals)]

PA_analyze_stock(stock_data, weights, has_ta) ==
    PA_result(PA_locals(stock_data, has_ta), weights)

\* stock_analyzer.py analyze_stock: `symbol = stock_data['symbol']` stands
\* before the try block
SA_analyze_stock_raises(stock_data) == "symbol" \notin DOMAIN stock_data

SA_initial_result(symbol) ==
    [symbol |-> symbol,
     analysis_date |-> Str("today"),
     fundamental_score |-> 0,
     technical_score |-> 0,
     momentum_score |-> 0,
     sentiment_score |-> 0,
     overall_score |-> 0,
     recommendation |-> "HOLD",
     target_price |-> None,
     risk_rating |-> "MEDIUM",
     confidence_level |-> 0,
     details |-> EmptyMap,
     error |-> None]

\* whether the call gets as far as the four scorers
SA_reaches_scorers(stock_data) ==
    /\ "symbol" \in DOMAIN stock_data
    /\ "price_data" \in DOMAIN stock_data
    /\ "fundamentals" \in DOMAIN stock_data
    /\ stock_data["price_data"].bars >= 50

\* the error of the checks that return before any scorer is called, or None
SA_early_error(stock_data) ==
    IF "price_data" \notin DOMAIN stock_data THEN Str("'price_data'")
    ELSE IF "fundamentals" \notin DOMAIN stock_data THEN Str("'fundamentals'")
    ELSE IF stock_data["price_data"].bars = 0
    THEN Str("No price data available")
    ELSE IF stock_data["price_data"].bars < 50
    THEN Str("Insufficient price data for analysis")
    ELSE None

\* stock_analyzer.py analyze_stock from its local variables l on, the four
\* scorers having returned: the result fields are assigned one by one; an
\* exception raised while the details dictionary is built (a frame without
\* a close column) sets error and leaves the fields already assigned in
\* place
SA_result(analysis_result, l, weights) ==
    LET price_df == l.price_df
        fundamentals == l.fundamentals
        fundamental_analysis == l.fundamental_analysis
        technical_analysis == l.technical_analysis
        momentum_analysis == l.momentum_analysis
        sentiment_analysis == l.sentiment_analysis
        overall_score ==
            WeightedScore(weights, fundamental_analysis,
                          technical_analysis, momentum_analysis,
                          sentiment_analysis)
        scored ==
            [analysis_result EXCEPT
                !.fundamental_score = fundamental_analysis.score,
                !.technical_score = technical_analysis.score,
                !.momentum_score = momentum_analysis.score,
                !.sentiment_score = sentiment_analysis.score,
                !.overall_score = Round2(overall_score),
                !.recommendation = SA_get_recommendation(overall_score),
                !.target_price = SA_calculate_target_price(
                                     price_df, fundamentals, overall_score),
                !.risk_rating = SA_assess_risk(price_df, fundamentals,
                                               technical_analysis),
                !.confidence_level = SA_calculate_confidence(
                                         fundamental_analysis,
                                         technical_analysis,
                                         momentum_analysis,
                                         sentiment_analysis)]
    IN  IF MissingWeight(weights) # ""
        THEN [analysis_result EXCEPT
                 !.fundamental_score = fundamental_analysis.score,
                 !.technical_score = technical_analysis.score,
                 !.momentum_score = momentum_analysis.score,
                 !.sentiment_score = sentiment_analysis.score,
                 !.error = KeyError(MissingWeight(weights))]
        ELSE IF ~HasClose(price_df)
        THEN [scored EXCEPT !.error = Str("'close'")]
        ELSE [scored EXCEPT
                 !.details = [fundamental |-> fundamental_analysis,
                              technical |-> technical_analysis,
                              momentum |-> momentum_analysis,
                              sentiment |-> sentiment_analysis,
                              price_current |-> Num(price_df.close)]]

\* the local variables of stock_analyzer.py analyze_stock once the four
\* scorers have returned
SA_locals(stock_data) ==
    LET price_df == stock_data["price_data"]
        fundamentals == stock_data["fundamentals"]
    IN  [symbol |-> stock_data["symbol"],
         price_df |-> price_df,
         fundamentals |-> fundamentals,
         fundamental_analysis |-> SA_analyze_fundamentals(fundamentals),
         technical_analysis |-> SA_analyze_technical(price_df),
         momentum_analysis |-> SA_analyze_momentum(price_df),
         sentiment_analysis |-> SA_analyze_sentiment(fundamentals, price_df)]

SA_analyze_stock(stock_data, weights) ==
    LET analysis_result == SA_initial_result(stock_data["symbol"])
    IN  IF SA_early_error(stock_data) # None
        THEN [analysis_result EXCEPT !.error = SA_early_error(stock_data)]
        ELSE SA_result(analysis_result, SA_locals(stock_data), weights)

\* ------------------------------------------------------------------------
\* Spec: one analyze_stock call per behaviour, on every request of Requests.
\* ------------------------------------------------------------------------
\* frame lengths on both sides of every window the code tests (10, 14, 20,
\* 30, 34, 50, 60, 200)
BarLens == {1, 10, 20, 30, 49, 50, 60, 200}

\* a flat series at 100.00
Flat ==
    [close |-> 10000, ma20 |-> 10000, ma50 |-> 10000, ma200 |-> 10000,
     bb_lower |-> 10000, bb_upper |-> 10000, rsi |-> 5000,
     macd |-> 0, macd_prev |-> 0,
     vol5 |-> 1000, vol10 |-> 1000, vol20 |-> 1000, vol60 |-> 1000,
     ret5 |-> 0, ret20 |-> 0, ret60 |-> 0, volatility |-> 0,
     pos10 |-> 0, pos30 |-> 0]

\* a strong, overbought rally on rising volume
Bull ==
    [close |-> 12000, ma20 |-> 11000, ma50 |-> 10000, ma200 |-> 9000,
     bb_lower |-> 10000, bb_upper |-> 12200, rsi |-> 7800,
     macd |-> 50, macd_prev |-> 30,
     vol5 |-> 2000, vol10 |-> 1800, vol20 |-> 1000, vol60 |-> 1000,
     ret5 |-> 600, ret20 |-> 1500, ret60 |-> 2500, volatility |-> 3000,
     pos10 |-> 8, pos30 |-> 20]

\* a volatile, oversold decline on falling volume
Bear ==
    [close |-> 8000, ma20 |-> 9000, ma50 |-> 10000, ma200 |-> 11000,
     bb_lower |-> 7900, bb_upper |-> 10000, rsi |-> 2200,
     macd |-> -50, macd_prev |-> -30,
     vol5 |-> 400, vol10 |-> 500, vol20 |-> 1000, vol60 |-> 1000,
     ret5 |-> -600, ret20 |-> -1500, ret60 |-> -2500, volatility |-> 6000,
     pos10 |-> 2, pos30 |-> 10]

\* a collapse to a last close of 0 with no volume
Crash ==
    [close |-> 0, ma20 |-> 500, ma50 |-> 1000, ma200 |-> 2000,
     bb_lower |-> 0, bb_upper |-> 1500, rsi |-> 500,
     macd |-> -100, macd_prev |-> -50,
     vol5 |-> 0, vol10 |-> 0, vol20 |-> 0, vol60 |-> 0,
     ret5 |-> -10000, ret20 |-> -10000, ret60 |-> -10000,
     volatility |-> 20000, pos10 |-> 0, pos30 |-> 5]

\* a quiet drift upwards, the short average still below the medium one
Drift ==
    [close |-> 10500, ma20 |-> 10200, ma50 |-> 10300, ma200 |-> 10400,
     bb_lower |-> 10000, bb_upper |-> 11000, rsi |-> 4500,
     macd |-> 10, macd_prev |-> 20,
     vol5 |-> 1000, vol10 |-> 1000, vol20 |-> 1000, vol60 |-> 1000,
     ret5 |-> 100, ret20 |-> 300, ret60 |-> 1200, volatility |-> 1500,
     pos10 |-> 5, pos30 |-> 16]

Profiles == {Flat, Bull, Bear, Crash, Drift}

Frame(profile, bars, cols) == profile @@ [bars |-> bars, cols |-> cols]

Frames ==
    {EmptyFrame} \cup
    {Frame(p, b, c) : p \in Profiles, b \in BarLens, c \in {"full", "noClose"}}

Fields ==
    {"pe_ratio", "price_to_book", "return_on_equity", "debt_to_equity",
     "profit_margin", "revenue_growth", "current_ratio", "market_cap",
     "analyst_rating", "sector"}

StrongFund ==
    [pe_ratio |-> Num(1200), price_to_book |-> Num(100),
     return_on_equity |-> Num(25), debt_to_equity |-> Num(20),
     profit_margin |-> Num(25), revenue_growth |-> Num(25),
     current_ratio |-> Num(300), market_cap |-> Num(500000),
     analyst_rating |-> Str("STRONG_BUY"), sector |-> Str("Technology")]

WeakFund ==
    [pe_ratio |-> Num(4000), price_to_book |-> Num(600),
     return_on_equity |-> Num(5), debt_to_equity |-> Num(150),
     profit_margin |-> Num(2), revenue_growth |-> Num(-10),
     current_ratio |-> Num(80), market_cap |-> Num(100),
     analyst_rating |-> Str("STRONG_SELL"), sector |-> Str("Energy")]

\* the spec's scenario B
ScenarioB ==
    [pe_ratio |-> Num(1200), debt_to_equity |-> Num(20),
     profit_margin |-> Num(25), revenue_growth |-> Num(15)]

\* the two highest-scoring ratios of analysis.py and a large cap
BestPA ==
    [return_on_equity |-> Num(25), profit_margin |-> Num(25),
     market_cap |-> Num(500000)]

\* StrongFund and WeakFund with one field made null, non-numeric, zero or negative
FundSnapshots ==
    {EmptyMap, StrongFund, WeakFund, ScenarioB, BestPA} \cup
    {[base EXCEPT ![f] = v] :
        base \in {StrongFund, WeakFund}, f \in Fields,
        v \in {None, Bad, Num(0), Num(-500)}}

Symbols == {"AAPL"}

\* stock_data mappings: complete, or lacking one key, or with fundamentals
\* given as None
Requests ==
    {[symbol |-> y, price_data |-> p, fundamentals |-> Dict(f)] :
        y \in Symbols, p \in Frames, f \in FundSnapshots}
    \cup {[price_data |-> p, fundamentals |-> Dict(f)] :
        p \in Frames, f \in {EmptyMap, StrongFund}}
    \cup {[symbol |-> y, fundamentals |-> Dict(f)] :
        y \in Symbols, f \in FundSnapshots}
    \cup {[symbol |-> y, price_data |-> p] : y \in Symbols, p \in Frames}
    \cup {[symbol |-> y, price_data |-> p, fundamentals |-> NoneDict] :
        y \in Symbols, p \in Frames}

Init ==
    /\ impl \in Impls
    /\ hasTA \in BOOLEAN
    /\ impl = "SA" => hasTA
    /\ pc = "call"
    /\ req \in Requests
    /\ res = None
    /\ outcome = "none"
    /\ invoked = {}
    /\ scoring_weights = DefaultWeights
    /\ locals = <<>>
    /\ history = <<>>

AnalyzeStockPA ==
    /\ pc = "call"
    /\ impl = "PA"
    /\ res' = PA_analyze_stock(req, scoring_weights, hasTA)
    /\ outcome' = "returned"
    /\ invoked' = Scorers
    /\ pc' = "done"
    /\ UNCHANGED <<impl, hasTA, scoring_weights, req, locals, history>>

AnalyzeStockSA ==
    /\ pc = "call"
    /\ impl = "SA"
    /\ IF SA_analyze_stock_raises(req)
       THEN /\ res' = None
            /\ outcome' = "raised"
       ELSE /\ res' = SA_analyze_stock(req, scoring_weights)
            /\ outcome' = "returned"
    /\ invoked' = IF SA_reaches_scorers(req) THEN Scorers ELSE {}
    /\ pc' = "done"
    /\ UNCHANGED <<impl, hasTA, scoring_weights, req, locals, history>>

Next == AnalyzeStockPA \/ AnalyzeStockSA

Spec == Init /\ [][Next]_vars

\* ------------------------------------------------------------------------
\* SpecFund: one call of the fundamental scorer on every snapshot of
\* FundInputs.
\* ------------------------------------------------------------------------
\* every field present with a null value
AllNull == [f \in Fields |-> None]

FundInputs ==
    {Dict(f) : f \in FundSnapshots \cup {AllNull}} \cup {NoneDict}

InitFund ==
    /\ impl \in Impls
    /\ hasTA = TRUE
    /\ pc = "call"
    /\ req \in FundInputs
    /\ res = None
    /\ outcome = "none"
    /\ invoked = {}
    /\ scoring_weights = DefaultWeights
    /\ locals = <<>>
    /\ history = <<>>

CalculateFundamentalScorePA ==
    /\ pc = "call"
    /\ impl = "PA"
    /\ res' = PA_calculate_fundamental_score(req)
    /\ outcome' = "returned"
    /\ pc' = "done"
    /\ UNCHANGED <<impl, hasTA, scoring_weights, req, invoked, locals, history>>

AnalyzeFundamentalsSA ==
    /\ pc = "call"
    /\ impl = "SA"
    /\ res' = SA_analyze_fundamentals(req)
    /\ outcome' = "returned"
    /\ pc' = "done"
    /\ UNCHANGED <<impl, hasTA, scoring_weights, req, invoked, locals, history>>

NextFund == CalculateFundamentalScorePA \/ AnalyzeFundamentalsSA

SpecFund == InitFund /\ [][NextFund]_vars

\* ------------------------------------------------------------------------
\* SpecRatio: one call of the fundamental scorer on a snapshot that holds
\* return_on_equity or profit_margin alone, as a fraction or as a
\* percentage.
\* ------------------------------------------------------------------------
RatioFields == {"return_on_equity", "profit_margin"}

\* supplied values in hundredths: 0.01 .. 0.99 and 1.0 .. 25.0
RatioValues ==
    {1, 4, 5, 6, 10, 11, 15, 16, 20, 21, 50, 99,
     100, 101, 500, 501, 1000, 1001, 1500, 1501, 2000, 2001, 2500}

RatioInputs == {Dict(f :> Num(v)) : f \in RatioFields, v \in RatioValues}

InitRatio ==
    /\ impl \in Impls
    /\ hasTA = TRUE
    /\ pc = "call"
    /\ req \in RatioInputs
    /\ res = None
    /\ outcome = "none"
    /\ invoked = {}
    /\ scoring_weights = DefaultWeights
    /\ locals = <<>>
    /\ history = <<>>

SpecRatio == InitRatio /\ [][NextFund]_vars

\* analysis['factors']['roe_score'] / ['pm_score'] of a scorer's result
RatioSubScore(r, f) ==
    r.factors[IF f = "return_on_equity" THEN "roe_score" ELSE "pm_score"].v

FundamentalOf(i, fundamentals) ==
    IF i = "PA" THEN PA_calculate_fundamental_score(fundamentals)
    ELSE SA_analyze_fundamentals(fundamentals)

\* C30: for return_on_equity and profit_margin a larger supplied value
\* never yields a smaller sub-score than a smaller supplied value.
C30_RatioSubScoreMonotone ==
    (pc = "done") =>
        \A f \in DOMAIN req.m : \A v \in RatioValues :
            v <= req.m[f].v =>
                RatioSubScore(FundamentalOf(impl, Dict(f :> Num(v))), f)
                    <= RatioSubScore(res, f)

\* C13: when every fundamental field is absent (an empty mapping or all
\* values null) the fundamental scorer returns score 50.0 and an empty
\* factor map.
C13_AbsentFundamentalsNeutral ==
    (/\ pc = "done"
     /\ req.k = "dict"
     /\ \A f \in Fields : Get(req, f) = None) =>
        /\ res.score = Pts(50)
        /\ DOMAIN res.factors = {}

\* the factor key of each fundamental field
C14_Key ==
    [pe_ratio |-> "pe_score", price_to_book |-> "pb_score",
     return_on_equity |-> "roe_score", debt_to_equity |-> "de_score",
     profit_margin |-> "pm_score", revenue_growth |-> "rg_score",
     current_ratio |-> "cr_score"]

RECURSIVE C14_Sum(_, _)
C14_Sum(m, keys) ==
    IF keys = {} THEN 0
    ELSE LET key == CHOOSE x \in keys : TRUE
         IN  m[key].v + C14_Sum(m, keys \ {key})

\* the arithmetic mean of the entries of a factor map, in score units
C14_MeanOf(m) ==
    IF DOMAIN m = {} THEN Pts(50)
    ELSE (C14_Sum(m, DOMAIN m) * Unit) \div Cardinality(DOMAIN m)

\* C14: on numeric or absent fields, each of the seven fundamental fields
\* has an entry in the factor map if and only if its value is non-null
\* (zero and negative values included), and the score is the arithmetic
\* mean of exactly those entries.
C14_SubScoreIffPresent ==
    (/\ pc = "done"
     /\ req.k = "dict"
     /\ \A f \in DOMAIN C14_Key : Get(req, f).k # "str") =>
        /\ \A f \in DOMAIN C14_Key :
               (Get(req, f) # None) <=> (C14_Key[f] \in DOMAIN res.factors)
        /\ res.score \in {C14_MeanOf(res.factors), Round2(C14_MeanOf(res.factors))}

\* ------------------------------------------------------------------------
\* Properties of analyze_stock
\* ------------------------------------------------------------------------
\* result.get('error')
ErrorOf(r) == IF "error" \in DOMAIN r THEN r.error ELSE None

\* C29: whenever stock_analyzer.py analyze_stock returns a result with error
\* set, every other field of the result still holds its initial default.
C29_FailedAnalysisKeepsDefaults ==
    (pc = "done" /\ impl = "SA" /\ outcome = "returned"
     /\ ErrorOf(res) # None) =>
        res = [SA_initial_result(res.symbol) EXCEPT !.error = res.error]

\* result.get('target_price')
TargetOf(r) == IF "target_price" \in DOMAIN r THEN r.target_price ELSE None

\* the request carries all three keys and a fundamentals mapping
CompleteRequest ==
    /\ DOMAIN req = {"symbol", "price_data", "fundamentals"}
    /\ req.fundamentals.k = "dict"

\* C2: with the default weights every result analyze_stock returns, on the
\* success path and on the error path alike, has 0 <= overall_score <= 100.
C2_OverallScoreRange ==
    (pc = "done" /\ outcome = "returned") =>
        (0 <= res.overall_score /\ res.overall_score <= 100 * Unit)

\* a scored call on a sufficient series that ends in the BUY band
C2_Witness ==
    /\ pc = "done"
    /\ outcome = "returned"
    /\ CompleteRequest
    /\ req.price_data.bars >= 50
    /\ ErrorOf(res) = None
    /\ res.overall_score >= Pts(65)

\* C4: a call with an empty price series ends in the error outcome: error
\* is set, overall_score is 50.0 and the recommendation is HOLD, whatever
\* the fundamentals are.
C4_EmptySeriesIsError ==
    (/\ pc = "done"
     /\ outcome = "returned"
     /\ "price_data" \in DOMAIN req
     /\ req.price_data.bars = 0) =>
        /\ ErrorOf(res) # None
        /\ res.overall_score = Pts(50)
        /\ res.recommendation = "HOLD"

\* C5: with 1..49 bars the call returns with error set and no dimension
\* scorer invoked; with exactly 50 bars the scorers are invoked and error
\* is null.
C5_LengthCheckBeforeScoring ==
    (/\ pc = "done"
     /\ outcome = "returned"
     /\ CompleteRequest
     /\ HasClose(req.price_data)) =>
        /\ (req.price_data.bars >= 1 /\ req.price_data.bars < 50) =>
              (ErrorOf(res) # None /\ invoked = {})
        /\ (req.price_data.bars = 50) =>
              (invoked = Scorers /\ ErrorOf(res) = None)

\* the ratios both fundamental scorers read
C6_Ratios ==
    {"pe_ratio", "price_to_book", "return_on_equity", "debt_to_equity",
     "profit_margin"}

\* the fundamental scorer faults on a non-numeric ratio
C6_FundamentalFaults == \E f \in C6_Ratios : Get(req.fundamentals, f) = Bad

\* the same request with the non-numeric ratios absent
C6_Repaired ==
    [req EXCEPT !.fundamentals =
        Dict([f \in DOMAIN req.fundamentals.m |->
                 IF f \in C6_Ratios /\ req.fundamentals.m[f] = Bad
                 THEN None ELSE req.fundamentals.m[f]])]

C6_WithoutFault ==
    IF impl = "PA" THEN PA_analyze_stock(C6_Repaired, scoring_weights, hasTA)
    ELSE SA_analyze_stock(C6_Repaired, scoring_weights)

\* the notes of a fundamental dimension result
C6_Notes(f) ==
    IF impl = "PA" THEN f.strengths \o f.weaknesses
    ELSE f.strength \o f.weakness

\* C6: when the fundamental scorer faults during a call on a sufficient
\* series, the result has that dimension at 50.0 with an empty factor map
\* and no note from before the fault, the other three dimension scores are
\* what they are without the fault, and error is null.
C6_PartialFailureIsolation ==
    (/\ pc = "done"
     /\ outcome = "returned"
     /\ CompleteRequest
     /\ HasClose(req.price_data)
     /\ req.price_data.bars >= 50
     /\ C6_FundamentalFaults) =>
        /\ res.fundamental_score = Pts(50)
        /\ DOMAIN res.details.fundamental.factors = {}
        /\ C6_Notes(res.details.fundamental) = <<>>
        /\ res.technical_score = C6_WithoutFault.technical_score
        /\ res.momentum_score = C6_WithoutFault.momentum_score
        /\ res.sentiment_score = C6_WithoutFault.sentiment_score
        /\ ErrorOf(res) = None

\* C7: every call of analyze_stock ends by returning a result, never by
\* raising, also when stock_data lacks the symbol, price_data or
\* fundamentals key or carries a null fundamentals value.
C7_NeverRaises == (pc = "done") => (outcome = "returned")

\* C8: every returned result, on the success path and on the error path,
\* carries the documented fields: symbol, timestamp, the four dimension
\* scores, overall_score, recommendation, risk level, confidence and
\* target_price.
C8_WellFormedResult ==
    (pc = "done" /\ outcome = "returned") =>
        /\ {"symbol", "analysis_date", "fundamental_score",
            "technical_score", "momentum_score", "sentiment_score",
            "overall_score", "recommendation", "target_price"}
               \subseteq DOMAIN res
        /\ {"risk_level", "risk_rating"} \cap DOMAIN res # {}
        /\ {"confidence", "confidence_level"} \cap DOMAIN res # {}

\* C9: in every returned result target_price is null if and only if the
\* price series is empty or its last close is 0.
C9_TargetPriceNullIff ==
    (/\ pc = "done"
     /\ outcome = "returned"
     /\ "price_data" \in DOMAIN req
     /\ (req.price_data.bars = 0 \/ HasClose(req.price_data))) =>
        ((TargetOf(res) = None) <=>
            (req.price_data.bars = 0 \/ req.price_data.close = 0))

\* ------------------------------------------------------------------------
\* SpecWeights: analyzers constructed with a caller-supplied weight
\* configuration, then one analyze_stock call.
\* ------------------------------------------------------------------------
\* analysis.py __init__: `scoring_weights or {defaults}`; None and the empty
\* mapping are falsy
PA_init(scoring_weights_arg) ==
    IF scoring_weights_arg.k = "none" \/ DOMAIN scoring_weights_arg.m = {}
    THEN DefaultWeights ELSE scoring_weights_arg.m

\* stock_analyzer.py __init__: config.get('SCORING_WEIGHTS', {defaults});
\* the argument is the value of the key, or None when config lacks the key
SA_init(config_weights) ==
    IF config_weights.k = "none" THEN DefaultWeights ELSE config_weights.m

\* weight mappings in percent: the defaults, two that sum to 2.0 and 0.8,
\* one that omits sentiment, and the empty mapping
WeightMaps ==
    {DefaultWeights,
     [fundamental |-> 50, technical |-> 50, momentum |-> 50, sentiment |-> 50],
     [fundamental |-> 20, technical |-> 20, momentum |-> 20, sentiment |-> 20],
     [fundamental |-> 40, technical |-> 30, momentum |-> 20],
     EmptyMap}

WeightConfigs == {Dict(w) : w \in WeightMaps} \cup {NoneDict}

WeightRequests ==
    {[symbol |-> y, price_data |-> p, fundamentals |-> Dict(f)] :
        y \in Symbols,
        p \in {EmptyFrame} \cup
              {Frame(q, b, "full") : q \in Profiles, b \in {10, 60}},
        f \in {EmptyMap, StrongFund, WeakFund}}

InitWeights ==
    /\ impl \in Impls
    /\ hasTA = TRUE
    /\ \E c \in WeightConfigs :
           scoring_weights = IF impl = "PA" THEN PA_init(c) ELSE SA_init(c)
    /\ pc = "call"
    /\ req \in WeightRequests
    /\ res = None
    /\ outcome = "none"
    /\ invoked = {}
    /\ locals = <<>>
    /\ history = <<>>

SpecWeights == InitWeights /\ [][Next]_vars

\* C15: whenever analyze_stock produces an overall score, the analyzer's
\* four weights are all present and sum to 1.0; a configuration that does
\* not sum to 1.0 or omits a dimension is never used to produce one.
C15_WeightsSumToOne ==
    (pc = "done" /\ outcome = "returned" /\ ErrorOf(res) = None) =>
        /\ DOMAIN scoring_weights = Scorers
        /\ scoring_weights.fundamental + scoring_weights.technical
           + scoring_weights.momentum + scoring_weights.sentiment = 100

\* ------------------------------------------------------------------------
\* SpecSeq: up to MaxCalls analyze_stock calls, one after the other, on one
\* analyzer instance constructed with the default weights.
\* ------------------------------------------------------------------------
MaxCalls == 3

\* analyze_stock as a method that stores what it saw: a lower fundamental
\* weight once a call has failed
SelfAfterAnalyze_learning(weights, result) ==
    IF "error" \in DOMAIN result /\ result.error # None
    THEN [weights EXCEPT !.fundamental = 20, !.technical = 50]
    ELSE weights

\* self.scoring_weights when analyze_stock returns: neither implementation
\* assigns an attribute of self outside __init__
SelfAfterAnalyze(weights, result) == weights

\* a scored request, an empty series, a short one, rows without a close
\* column, null fundamentals, and a mapping without the symbol key
SeqRequests ==
    {[symbol |-> "AAPL", price_data |-> Frame(Bull, 60, "full"),
      fundamentals |-> Dict(StrongFund)],
     [symbol |-> "AAPL", price_data |-> Frame(Bear, 60, "full"),
      fundamentals |-> Dict(WeakFund)],
     [symbol |-> "AAPL", price_data |-> EmptyFrame,
      fundamentals |-> Dict(BestPA)],
     [symbol |-> "AAPL", price_data |-> Frame(Drift, 10, "full"),
      fundamentals |-> Dict(ScenarioB)],
     [symbol |-> "AAPL", price_data |-> Frame(Flat, 60, "noClose"),
      fundamentals |-> Dict(StrongFund)],
     [symbol |-> "AAPL", price_data |-> Frame(Bull, 60, "full"),
      fundamentals |-> NoneDict],
     [price_data |-> Frame(Bull, 60, "full"),
      fundamentals |-> Dict(StrongFund)]}

InitSeq ==
    /\ impl \in Impls
    /\ hasTA \in BOOLEAN
    /\ impl = "SA" => hasTA
    /\ scoring_weights = DefaultWeights
    /\ pc = "idle"
    /\ req = None
    /\ res = None
    /\ outcome = "none"
    /\ invoked = {}
    /\ locals = <<>>
    /\ history = <<>>

NextCallPA ==
    /\ impl = "PA"
    /\ pc = "idle"
    /\ Len(history) < MaxCalls
    /\ req' \in SeqRequests
    /\ res' = PA_analyze_stock(req', scoring_weights, hasTA)
    /\ outcome' = "returned"
    /\ invoked' = Scorers
    /\ scoring_weights' = SelfAfterAnalyze(scoring_weights, res')
    /\ history' = Append(history, [stock_data |-> req',
                                   outcome |-> outcome',
                                   result |-> res'])
    /\ UNCHANGED <<impl, hasTA, pc, locals>>

NextCallSA ==
    /\ impl = "SA"
    /\ pc = "idle"
    /\ Len(history) < MaxCalls
    /\ req' \in SeqRequests
    /\ IF SA_analyze_stock_raises(req')
       THEN /\ res' = None
            /\ outcome' = "raised"
       ELSE /\ res' = SA_analyze_stock(req', scoring_weights)
            /\ outcome' = "returned"
    /\ invoked' = IF SA_reaches_scorers(req') THEN Scorers ELSE {}
    /\ scoring_weights' = SelfAfterAnalyze(scoring_weights, res')
    /\ history' = Append(history, [stock_data |-> req',
                                   outcome |-> outcome',
                                   result |-> res'])
    /\ UNCHANGED <<impl, hasTA, pc, locals>>

NextSeq == NextCallPA \/ NextCallSA

SpecSeq == InitSeq /\ [][NextSeq]_vars

\* a result without its timestamp
C17_Untimed(r) == [x \in DOMAIN r \ {"analysis_date"} |-> r[x]]

PriceColumns == {"date", "open", "high", "low", "close", "volume"}

\* the caller's frame with its column index
CallerFrame(frame) ==
    frame @@ [columns |-> IF frame.bars = 0 THEN {}
                          ELSE IF HasClose(frame) THEN PriceColumns
                          ELSE PriceColumns \ {"close"}]

FrameInputs ==
    [price_df : {CallerFrame(EmptyFrame)} \cup
                {CallerFrame(Frame(p, b, c)) :
                    p \in {Bull, Bear}, b \in {10, 20, 60, 200},
                    c \in {"full", "noClose"}},
     fundamentals : {Dict(EmptyMap), Dict(StrongFund)}]

\* analysis.py calculate_technical_score assigns price_df['ma20'],
\* price_df['ma50'], price_df['ma200'] and price_df['rsi'] on the frame it
\* was given; a frame without a close column raises before any assignment
PA_technical_frame(price_df, has_ta) ==
    IF price_df.bars < 20 \/ ~HasClose(price_df) THEN price_df
    ELSE [price_df EXCEPT !.columns =
             @ \cup (IF price_df.bars >= 200 THEN {"ma20", "ma50", "ma200"}
                     ELSE {})
               \cup (IF has_ta THEN {"rsi"} ELSE {})]

\* analysis.py calculate_momentum_score and calculate_sentiment_score only
\* read the frame
PA_momentum_frame(price_df) == price_df
PA_sentiment_frame(price_df) == price_df

\* analysis.py analyze_stock builds its own frame from the price_data list
PA_analyze_frame(price_data) == price_data

\* stock_analyzer.py _analyze_technical and _analyze_momentum work on
\* price_df.copy(); _analyze_sentiment and analyze_stock only read
SA_technical_frame(price_df) == price_df
SA_momentum_frame(price_df) == price_df
SA_sentiment_frame(price_df) == price_df
SA_analyze_frame(price_df) == price_df

\* the request analyze_stock is called with
FrameRequest ==
    [symbol |-> "AAPL", price_data |-> req.price_df,
     fundamentals |-> req.fundamentals]

InitFrame ==
    /\ impl \in Impls
    /\ hasTA \in BOOLEAN
    /\ impl = "SA" => hasTA
    /\ scoring_weights = DefaultWeights
    /\ pc = "call"
    /\ req \in FrameInputs
    /\ res = None
    /\ outcome = "none"
    /\ invoked = {}
    /\ locals = <<>>
    /\ history = <<req>>

\* a call by implementation i that invokes the scorers of `scorers`, leaves
\* the caller's frame as `frame` and returns `result`
FrameCall(i, scorers, frame, result) ==
    /\ pc = "call"
    /\ impl = i
    /\ req' = [req EXCEPT !.price_df = frame]
    /\ res' = result
    /\ outcome' = "returned"
    /\ invoked' = scorers
    /\ pc' = "done"
    /\ UNCHANGED <<impl, hasTA, scoring_weights, locals, history>>

FundamentalScorePA ==
    FrameCall("PA", {"fundamental"}, req.price_df,
              PA_calculate_fundamental_score(req.fundamentals))

TechnicalScorePA ==
    FrameCall("PA", {"technical"}, PA_technical_frame(req.price_df, hasTA),
              PA_calculate_technical_score(req.price_df, hasTA))

MomentumScorePA ==
    FrameCall("PA", {"momentum"}, PA_momentum_frame(req.price_df),
              PA_calculate_momentum_score(req.price_df))

SentimentScorePA ==
    FrameCall("PA", {"sentiment"}, PA_sentiment_frame(req.price_df),
              PA_calculate_sentiment_score(req.price_df, req.fundamentals))

AnalyzeFramePA ==
    FrameCall("PA", Scorers, PA_analyze_frame(req.price_df),
              PA_analyze_stock(FrameRequest, scoring_weights, hasTA))

FundamentalScoreSA ==
    FrameCall("SA", {"fundamental"}, req.price_df,
              SA_analyze_fundamentals(req.fundamentals))

TechnicalScoreSA ==
    FrameCall("SA", {"technical"}, SA_technical_frame(req.price_df),
              SA_analyze_technical(req.price_df))

MomentumScoreSA ==
    FrameCall("SA", {"momentum"}, SA_momentum_frame(req.price_df),
              SA_analyze_momentum(req.price_df))

SentimentScoreSA ==
    FrameCall("SA", {"sentiment"}, SA_sentiment_frame(req.price_df),
              SA_analyze_sentiment(req.fundamentals, req.price_df))

AnalyzeFrameSA ==
    FrameCall("SA", IF SA_reaches_scorers(FrameRequest) THEN Scorers ELSE {},
              SA_analyze_frame(req.price_df),
              SA_analyze_stock(FrameRequest, scoring_weights))

NextFrame ==
    \/ FundamentalScorePA
    \/ TechnicalScorePA
    \/ MomentumScorePA
    \/ SentimentScorePA
    \/ AnalyzeFramePA
    \/ FundamentalScoreSA
    \/ TechnicalScoreSA
    \/ MomentumScoreSA
    \/ SentimentScoreSA
    \/ AnalyzeFrameSA

SpecFrame == InitFrame /\ [][NextFrame]_vars

\* C18: when analyze_stock or a dimension scorer has returned, the price
\* frame the caller passed has the rows and columns it had before the
\* call and the fundamentals mapping has the same entries.
C18_InputsUnchanged ==
    (pc = "done") =>
        /\ req.price_df.bars = history[1].price_df.bars
        /\ req.price_df.columns = history[1].price_df.columns
        /\ req.fundamentals = history[1].fundamentals

\* ------------------------------------------------------------------------
\* SpecConc: two analyze_stock calls for different symbols on one analyzer,
\* their steps interleaved in any order.  pc, req, res, outcome, invoked
\* and locals are indexed by the call; scoring_weights and hasTA are what
\* the calls share.  history is the order in which the calls began and
\* returned.
\* ------------------------------------------------------------------------
Invocations == {1, 2}

SymbolOf(p) == IF p = 1 THEN "AAPL" ELSE "MSFT"

ConcRequests(p) ==
    [symbol : {SymbolOf(p)},
     price_data : {Frame(Bull, 60, "full"), Frame(Bear, 200, "full"),
                   Frame(Bull, 10, "full"), Frame(Crash, 60, "noClose")},
     fundamentals : {Dict(StrongFund), Dict(EmptyMap)}]

\* the local variables of a call before any of them is bound
NoLocals ==
    [symbol |-> None, price_df |-> None, fundamentals |-> None,
     analysis_result |-> None,
     fundamental_analysis |-> None, technical_analysis |-> None,
     momentum_analysis |-> None, sentiment_analysis |-> None]

\* every call's intermediates kept in one slot, as attributes of self
CallFrame_on_self(p) == 1

\* the frame holding the local variables of call p: one per call
CallFrame(p) == p

InitConc ==
    /\ impl \in Impls
    /\ hasTA \in BOOLEAN
    /\ impl = "SA" => hasTA
    /\ scoring_weights = DefaultWeights
    /\ pc = [p \in Invocations |-> "call"]
    /\ req \in [Invocations -> UNION {ConcRequests(p) : p \in Invocations}]
    /\ \A p \in Invocations : req[p] \in ConcRequests(p)
    /\ res = [p \in Invocations |-> None]
    /\ outcome = [p \in Invocations |-> "none"]
    /\ invoked = [p \in Invocations |-> {}]
    /\ locals = [p \in Invocations |-> NoLocals]
    /\ history = <<>>

\* call p moves from position `from` to position `to`, binding the local
\* variable `name` to `value` after invoking the scorers of `scorers`
ConcStep(p, i, from, to, name, value, scorers) ==
    /\ impl = i
    /\ pc[p] = from
    /\ locals' = [locals EXCEPT ![CallFrame(p)][name] = value]
    /\ pc' = [pc EXCEPT ![p] = to]
    /\ invoked' = [invoked EXCEPT ![p] = @ \cup scorers]
    /\ UNCHANGED <<impl, hasTA, scoring_weights, req, res, outcome, history>>

\* call p returns `result`
ConcReturn(p, result) ==
    /\ res' = [res EXCEPT ![p] = result]
    /\ outcome' = [outcome EXCEPT ![p] = "returned"]
    /\ pc' = [pc EXCEPT ![p] = "done"]
    /\ history' = Append(history, [event |-> "return", call |-> p])

BeginPA(p) ==
    /\ impl = "PA"
    /\ pc[p] = "call"
    /\ locals' = [locals EXCEPT ![CallFrame(p)] =
                     [@ EXCEPT
                        !.symbol = StockGet(req[p], "symbol", "UNKNOWN"),
                        !.price_df =
                            StockGet(req[p], "price_data", EmptyFrame),
                        !.fundamentals =
                            StockGet(req[p], "fundamentals", Dict(EmptyMap))]]
    /\ pc' = [pc EXCEPT ![p] = "fundamental"]
    /\ history' = Append(history, [event |-> "begin", call |-> p])
    /\ UNCHANGED <<impl, hasTA, scoring_weights, req, res, outcome, invoked>>

FundamentalPA(p) ==
    ConcStep(p, "PA", "fundamental", "technical", "fundamental_analysis",
             PA_calculate_fundamental_score(
                 locals[CallFrame(p)].fundamentals),
             {"fundamental"})

TechnicalPA(p) ==
    ConcStep(p, "PA", "technical", "momentum", "technical_analysis",
             PA_calculate_technical_score(
                 locals[CallFrame(p)].price_df, hasTA),
             {"technical"})

MomentumPA(p) ==
    ConcStep(p, "PA", "momentum", "sentiment", "momentum_analysis",
             PA_calculate_momentum_score(locals[CallFrame(p)].price_df),
             {"momentum"})

SentimentPA(p) ==
    ConcStep(p, "PA", "sentiment", "combine", "sentiment_analysis",
             PA_calculate_sentiment_score(
                 locals[CallFrame(p)].price_df,
                 locals[CallFrame(p)].fundamentals),
             {"sentiment"})

FinishPA(p) ==
    /\ impl = "PA"
    /\ pc[p] = "combine"
    /\ ConcReturn(p, PA_result(locals[CallFrame(p)], scoring_weights))
    /\ UNCHANGED <<impl, hasTA, scoring_weights, req, invoked, locals>>

\* symbol lookup, the initial result and the checks before the scorers
BeginSA(p) ==
    /\ impl = "SA"
    /\ pc[p] = "call"
    /\ ~SA_analyze_stock_raises(req[p])
    /\ SA_early_error(req[p]) = None
    /\ locals' = [locals EXCEPT ![CallFrame(p)] =
                     [@ EXCEPT
                        !.symbol = req[p]["symbol"],
                        !.analysis_result =
                            SA_initial_result(req[p]["symbol"]),
                        !.price_df = req[p]["price_data"],
                        !.fundamentals = req[p]["fundamentals"]]]
    /\ pc' = [pc EXCEPT ![p] = "fundamental"]
    /\ history' = Append(history, [event |-> "begin", call |-> p])
    /\ UNCHANGED <<impl, hasTA, scoring_weights, req, res, outcome, invoked>>

\* the call returns from one of the checks before the scorers
RejectSA(p) ==
    /\ impl = "SA"
    /\ pc[p] = "call"
    /\ ~SA_analyze_stock_raises(req[p])
    /\ SA_early_error(req[p]) # None
    /\ ConcReturn(p, [SA_initial_result(req[p]["symbol"]) EXCEPT
                         !.error = SA_early_error(req[p])])
    /\ UNCHANGED <<impl, hasTA, scoring_weights, req, invoked, locals>>

FundamentalSA(p) ==
    ConcStep(p, "SA", "fundamental", "technical", "fundamental_analysis",
             SA_analyze_fundamentals(locals[CallFrame(p)].fundamentals),
             {"fundamental"})

TechnicalSA(p) ==
    ConcStep(p, "SA", "technical", "momentum", "technical_analysis",
             SA_analyze_technical(locals[CallFrame(p)].price_df),
             {"technical"})

MomentumSA(p) ==
    ConcStep(p, "SA", "momentum", "sentiment", "momentum_analysis",
             SA_analyze_momentum(locals[CallFrame(p)].price_df),
             {"momentum"})

SentimentSA(p) ==
    ConcStep(p, "SA", "sentiment", "combine", "sentiment_analysis",
             SA_analyze_sentiment(locals[CallFrame(p)].fundamentals,
                                  locals[CallFrame(p)].price_df),
             {"sentiment"})

FinishSA(p) ==
    /\ impl = "SA"
    /\ pc[p] = "combine"
    /\ ConcReturn(p, SA_result(locals[CallFrame(p)].analysis_result,
                               locals[CallFrame(p)], scoring_weights))
    /\ UNCHANGED <<impl, hasTA, scoring_weights, req, invoked, locals>>

NextConc ==
    \E p \in Invocations :
        \/ BeginPA(p)
        \/ FundamentalPA(p)
        \/ TechnicalPA(p)
        \/ MomentumPA(p)
        \/ SentimentPA(p)
        \/ FinishPA(p)
        \/ BeginSA(p)
        \/ RejectSA(p)
        \/ FundamentalSA(p)
        \/ TechnicalSA(p)
        \/ MomentumSA(p)
        \/ SentimentSA(p)
        \/ FinishSA(p)

SpecConc == InitConc /\ [][NextConc]_vars

\* what call p returns when it runs alone on the analyzer
AloneResult(p) ==
    IF impl = "PA" THEN PA_analyze_stock(req[p], scoring_weights, hasTA)
    ELSE SA_analyze_stock(req[p], scoring_weights)

\* C19: of two analyze_stock calls for different symbols interleaved on one
\* analyzer, each returns exactly the result it returns when run alone.
C19_ConcurrentIndependent ==
    \A p \in Invocations : (pc[p] = "done") => (res[p] = AloneResult(p))

\* call 2 began while call 1 was in flight and returned before call 1 did,
\* on different frames and fundamentals, and both were scored
C19_Witness ==
    /\ pc = [p \in Invocations |-> "done"]
    /\ history = << [event |-> "begin", call |-> 1],
                    [event |-> "begin", call |-> 2],
                    [event |-> "return", call |-> 2],
                    [event |-> "return", call |-> 1] >>
    /\ req[1].price_data # req[2].price_data
    /\ req[1].fundamentals # req[2].fundamentals
    /\ invoked = [p \in Invocations |-> Scorers]
    /\ res[1].overall_score # res[2].overall_score
    /\ res[1].symbol = "AAPL"
    /\ res[2].symbol = "MSFT"

\* ------------------------------------------------------------------------
\* SpecMom: one call of the momentum scorer on a frame given by its
\* trailing returns (hundredths of a percent) and its annualized
\* volatility (1/10000).
\* ------------------------------------------------------------------------
MomReturns5 == {-600, -300, 0, 300, 600}
MomReturns20 == {-1500, -700, -300, 0, 300, 700, 1500}
MomReturns60 == {-2500, -1500, 0, 500, 1500, 2500}
MomVolatilities == {0, 1500, 2200, 5000, 5001, 8000}
MomBars == {20, 30, 60}

\* a frame with the given trailing returns and volatility; a series whose
\* volatility is 0 has no price change at all
MomFrame(r5, r20, r60, v, bars) ==
    Frame([Flat EXCEPT !.ret5 = r5, !.ret20 = r20, !.ret60 = r60,
                       !.volatility = v], bars, "full")

MomInputs ==
    {MomFrame(r5, r20, r60, v, b) :
        r5 \in MomReturns5, r20 \in MomReturns20, r60 \in MomReturns60,
        v \in MomVolatilities, b \in MomBars}

InitMom ==
    /\ impl \in Impls
    /\ hasTA = TRUE
    /\ scoring_weights = DefaultWeights
    /\ pc = "call"
    /\ req \in {[price_df |-> f] : f \in MomInputs}
    /\ req.price_df.volatility = 0 =>
           (req.price_df.ret5 = 0 /\ req.price_df.ret20 = 0
            /\ req.price_df.ret60 = 0)
    /\ res = None
    /\ outcome = "none"
    /\ invoked = {}
    /\ locals = <<>>
    /\ history = <<>>

CalculateMomentumScorePA ==
    /\ pc = "call"
    /\ impl = "PA"
    /\ res' = PA_calculate_momentum_score(req.price_df)
    /\ outcome' = "returned"
    /\ invoked' = {"momentum"}
    /\ pc' = "done"
    /\ UNCHANGED <<impl, hasTA, scoring_weights, req, locals, history>>

AnalyzeMomentumSA ==
    /\ pc = "call"
    /\ impl = "SA"
    /\ res' = SA_analyze_momentum(req.price_df)
    /\ outcome' = "returned"
    /\ invoked' = {"momentum"}
    /\ pc' = "done"
    /\ UNCHANGED <<impl, hasTA, scoring_weights, req, locals, history>>

NextMom == CalculateMomentumScorePA \/ AnalyzeMomentumSA

SpecMom == InitMom /\ [][NextMom]_vars

\* C21: for a flat series of at least 60 bars (all trailing returns 0,
\* volatility 0) the momentum scorer returns the neutral score 50.
C21_FlatSeriesNeutral ==
    (/\ pc = "done"
     /\ req.price_df.bars >= 60
     /\ req.price_df.ret5 = 0
     /\ req.price_df.ret20 = 0
     /\ req.price_df.ret60 = 0
     /\ req.price_df.volatility = 0)
    => res.score = Pts(50)

\* the momentum score of the implementation under analysis for frame f
C25_MomentumScore(f) ==
    IF impl = "PA" THEN PA_calculate_momentum_score(f).score
    ELSE SA_analyze_momentum(f).score

\* C25: the momentum score returned when volatility is above 50% is never
\* higher than the score for the same trailing returns with volatility at
\* or below 50%.
C25_HighVolatilityOnlyDegrades ==
    (pc = "done" /\ req.price_df.volatility > 5000) =>
        \A v \in {w \in MomVolatilities : w > 0 /\ w <= 5000} :
            res.score <=
                C25_MomentumScore([req.price_df EXCEPT !.volatility = v])

\* ------------------------------------------------------------------------
\* SpecTech: one call of the technical scorer on a frame given by its last
\* close, its moving averages and its oscillator value (hundredths).
\* locals holds what each block of the scorer appended.
\* ------------------------------------------------------------------------
TechMA20s == {9900, 10000, 10100}
TechMA50s == {9800, 9950, 10000, 10050, 10200}
TechMA200s == {9000, 11000}
TechRSIs ==
    {0, 2500, 2999, 3000, 3500, 4000, 4500, 5000, 6000, 6001, 6500, 7000,
     7001, 10000}
TechBars == {15, 20, 50, 200}

TechFrame(m20, m50, m200, r, bars) ==
    Frame([Flat EXCEPT !.ma20 = m20, !.ma50 = m50, !.ma200 = m200,
                       !.rsi = r], bars, "full")

TechInputs ==
    {TechFrame(m20, m50, m200, r, b) :
        m20 \in TechMA20s, m50 \in TechMA50s, m200 \in TechMA200s,
        r \in TechRSIs, b \in TechBars}

\* what the moving-average, oscillator and volume blocks of analysis.py
\* calculate_technical_score append, each taken on its own
PA_technical_blocks(price_df, has_ta) ==
    IF price_df.bars < 20
    THEN [ma |-> Acc0, rsi |-> Acc0, volume |-> Acc0]
    ELSE [ma |-> PA_tech_ma(Acc0, price_df),
          rsi |-> PA_tech_rsi(Acc0, price_df, has_ta),
          volume |-> PA_tech_volume(Acc0, price_df)]

\* the same blocks of stock_analyzer.py _analyze_technical
SA_technical_blocks(price_df) ==
    [ma |-> SA_tech_ma(Acc0, price_df),
     rsi |-> SA_tech_rsi(Acc0, price_df),
     volume |-> SA_tech_volume(Acc0, price_df)]

InitTech ==
    /\ impl \in Impls
    /\ hasTA \in BOOLEAN
    /\ impl = "SA" => hasTA
    /\ scoring_weights = DefaultWeights
    /\ pc = "call"
    /\ req \in {[price_df |-> f] : f \in TechInputs}
    /\ res = None
    /\ outcome = "none"
    /\ invoked = {}
    /\ locals = <<>>
    /\ history = <<>>

CalculateTechnicalScorePA ==
    /\ pc = "call"
    /\ impl = "PA"
    /\ res' = PA_calculate_technical_score(req.price_df, hasTA)
    /\ locals' = PA_technical_blocks(req.price_df, hasTA)
    /\ outcome' = "returned"
    /\ invoked' = {"technical"}
    /\ pc' = "done"
    /\ UNCHANGED <<impl, hasTA, scoring_weights, req, history>>

AnalyzeTechnicalSA ==
    /\ pc = "call"
    /\ impl = "SA"
    /\ res' = SA_analyze_technical(req.price_df)
    /\ locals' = SA_technical_blocks(req.price_df)
    /\ outcome' = "returned"
    /\ invoked' = {"technical"}
    /\ pc' = "done"
    /\ UNCHANGED <<impl, hasTA, scoring_weights, req, history>>

NextTech == CalculateTechnicalScorePA \/ AnalyzeTechnicalSA

SpecTech == InitTech /\ [][NextTech]_vars

\* the sub-score and the number of notes of the stated oscillator table
C22_Table(r) ==
    IF r < 3000 THEN [score |-> 75, notes |-> 1]
    ELSE IF r > 7000 THEN [score |-> 25, notes |-> 1]
    ELSE IF 4000 <= r /\ r <= 6000 THEN [score |-> 60, notes |-> 0]
    ELSE [score |-> 50, notes |-> 0]

\* C22: whenever the technical scorer scores the oscillator, the sub-score
\* follows the table <30 -> 75 with a note, >70 -> 25 with a note, 40..60
\* inclusive -> 60, otherwise 50, for every oscillator value in [0,100].
C22_OscillatorTable ==
    (pc = "done" /\ "rsi" \in DOMAIN locals.rsi.map) =>
        /\ locals.rsi.sf = << C22_Table(req.price_df.rsi).score >>
        /\ Len(locals.rsi.pos) = C22_Table(req.price_df.rsi).notes

\* the stated moving-average sub-score for close c and averages m20, m50
C23_Table(c, m20, m50) ==
    IF c > m20 /\ c > m50 THEN 80
    ELSE IF c > m20 THEN 65
    ELSE IF c < m20 /\ c < m50 THEN 20
    ELSE 45

\* C23: whenever the technical scorer scores the moving averages of a
\* series with the 20- and 50-bar averages available, the sub-score is 80
\* with the price above both averages, 65 with the price above the short
\* average only, 20 with the price below both, and 45 otherwise.
C23_MovingAverageTable ==
    (pc = "done" /\ req.price_df.bars >= 50 /\ locals.ma.sf # <<>>) =>
        locals.ma.sf = << C23_Table(req.price_df.close, req.price_df.ma20,
                                    req.price_df.ma50) >>

\* C24: a sub-indicator over an N-bar window is omitted on a series of
\* fewer than N bars: the 10-vs-60-bar volume ratio (the volume block of
\* analysis.py's technical scorer) contributes no sub-score, entry or note
\* below 60 bars, and the 20/50-bar moving-average sub-score is computed
\* whenever at least 50 bars exist.
C24_WindowedIndicators ==
    (pc = "done") =>
        /\ (req.price_df.bars < 60 /\ impl = "PA") => locals.volume = Acc0
        /\ (req.price_df.bars >= 50) => locals.ma.sf # <<>>

\* ------------------------------------------------------------------------
\* SpecVol: one call of the momentum scorer on a price series given bar by
\* bar (closes in cents), the frame statistics being computed from the
\* closes as the scorer computes them.
\* ------------------------------------------------------------------------
\* n closes alternating between the levels a and b, ending on b
Alternate(n, a, b) == [i \in 1 .. n |-> IF (n - i) % 2 = 0 THEN b ELSE a]

\* flat, a 1% ripple, a 4% swing and a 25% swing around 100.00
SeriesLevels == {10000, 10100, 10400, 12500}
OlderLens == {10, 30}

VolSeries ==
    {Alternate(30, 10000, b) : b \in SeriesLevels} \cup
    {Alternate(k, 10000, a) \o Alternate(30, 10000, b) :
        k \in OlderLens, a \in SeriesLevels, b \in SeriesLevels}

\* close.pct_change().dropna(), in 1/10000
PctChange(c) ==
    [i \in 1 .. (Len(c) - 1) |-> ((c[i + 1] - c[i]) * 10000) \div c[i]]

RECURSIVE SumSq(_, _)
SumSq(q, m) ==
    IF q = <<>> THEN 0
    ELSE (Head(q) - m) * (Head(q) - m) + SumSq(Tail(q), m)

\* returns.std() * np.sqrt(252) with returns over the whole series, in
\* 1/10000 (sample standard deviation)
Volatility(c) ==
    LET returns == PctChange(c)
        mean == SumSeq(returns) \div Len(returns)
    IN  ISqrt((SumSq(returns, mean) \div (Len(returns) - 1)) * 252)

\* (current_price - close.iloc[-k]) / close.iloc[-k] * 100, in hundredths
TrailingReturn(c, k) ==
    IF Len(c) < k THEN 0
    ELSE ((c[Len(c)] - c[Len(c) - k + 1]) * 10000) \div c[Len(c) - k + 1]

\* the frame statistics the momentum scorer takes from the series
SeriesFrame(c) ==
    Frame([Flat EXCEPT !.close = c[Len(c)],
                       !.ret5 = TrailingReturn(c, 5),
                       !.ret20 = TrailingReturn(c, 20),
                       !.ret60 = TrailingReturn(c, 60),
                       !.volatility = Volatility(c)], Len(c), "full")

\* what the volatility block of the momentum scorer appends, the 20-bar
\* return being recorded before it
VolatilityBlock(i, df) ==
    IF i = "PA" THEN PA_mom_volatility(Acc0, df)
    ELSE SA_mom_volatility(Entry(Acc0, "momentum_20d", Num(df.ret20)), df)

InitVol ==
    /\ impl \in Impls
    /\ hasTA = TRUE
    /\ scoring_weights = DefaultWeights
    /\ pc = "call"
    /\ req \in {[closes |-> c] : c \in VolSeries}
    /\ res = None
    /\ outcome = "none"
    /\ invoked = {}
    /\ locals = <<>>
    /\ history = <<>>

MomentumOfSeriesPA ==
    /\ pc = "call"
    /\ impl = "PA"
    /\ res' = PA_calculate_momentum_score(SeriesFrame(req.closes))
    /\ locals' = VolatilityBlock("PA", SeriesFrame(req.closes))
    /\ outcome' = "returned"
    /\ invoked' = {"momentum"}
    /\ pc' = "done"
    /\ UNCHANGED <<impl, hasTA, scoring_weights, req, history>>

MomentumOfSeriesSA ==
    /\ pc = "call"
    /\ impl = "SA"
    /\ res' = SA_analyze_momentum(SeriesFrame(req.closes))
    /\ locals' = VolatilityBlock("SA", SeriesFrame(req.closes))
    /\ outcome' = "returned"
    /\ invoked' = {"momentum"}
    /\ pc' = "done"
    /\ UNCHANGED <<impl, hasTA, scoring_weights, req, history>>

NextVol == MomentumOfSeriesPA \/ MomentumOfSeriesSA

SpecVol == InitVol /\ [][NextVol]_vars

\* the last 30 bars of a series
C26_Last30(c) == SubSeq(c, Len(c) - 29, Len(c))

\* C26: two series of at least 30 bars that agree on their last 30 bars
\* yield the same volatility and the same volatility-dependent momentum
\* sub-score and note.
C26_VolatilityWindow ==
    (pc = "done") =>
        \A c \in VolSeries :
            C26_Last30(c) = C26_Last30(req.closes) =>
                VolatilityBlock(impl, SeriesFrame(c)) = locals

\* ------------------------------------------------------------------------
\* SpecBands: one analyze_stock call on requests that put every
\* sub-indicator into its lowest or its highest band, with the fundamental
\* fields present or absent.
\* ------------------------------------------------------------------------
BandBars == {30, 50, 60, 200}
BandRSIs == {2000, 8000}
BandVolatilities == {1000, 6000}

\* the tail volumes: no volume at all, a drying-up tail, a surging tail
BandVolumes ==
    {[vol5 |-> 0, vol10 |-> 0, vol20 |-> 0, vol60 |-> 0],
     [vol5 |-> 400, vol10 |-> 500, vol20 |-> 1000, vol60 |-> 1000],
     [vol5 |-> 2000, vol10 |-> 1800, vol20 |-> 1000, vol60 |-> 1000]}

\* the last close near the lower or near the upper Bollinger band
BandPositions ==
    {[below |-> 100, above |-> 2000], [below |-> 2000, above |-> 100]}

BandFrame(trend, r, v, volume, bb, bars) ==
    Frame([trend EXCEPT !.rsi = r, !.volatility = v,
                        !.vol5 = volume.vol5, !.vol10 = volume.vol10,
                        !.vol20 = volume.vol20, !.vol60 = volume.vol60,
                        !.bb_lower = trend.close - bb.below,
                        !.bb_upper = trend.close + bb.above],
          bars, "full")

BandFrames ==
    {BandFrame(trend, r, v, volume, bb, b) :
        trend \in {Bear, Bull}, r \in BandRSIs, v \in BandVolatilities,
        volume \in BandVolumes, bb \in BandPositions, b \in BandBars}

\* a fundamentals mapping with the fields of `keys` only
Restrict(m, keys) == [x \in keys |-> m[x]]

BandFundamentals ==
    {Restrict(base, keys \cup rest) :
        base \in {WeakFund, StrongFund},
        keys \in SUBSET {"pe_ratio", "price_to_book", "market_cap", "sector"},
        rest \in {{}, Fields \ {"pe_ratio", "price_to_book", "market_cap", "sector"}}}

\* a decline with a neutral oscillator, and a weak company that reports no
\* valuation ratios, no debt ratio and no analyst rating: the weighted sum
\* of the stock_analyzer.py dimension scores is 34.999
BoundaryFrame ==
    BandFrame(Bear, 5000, 6000,
              [vol5 |-> 400, vol10 |-> 500, vol20 |-> 1000, vol60 |-> 1000],
              [below |-> 100, above |-> 2000], 60)

BoundaryFund ==
    Restrict(WeakFund, {"return_on_equity", "profit_margin",
                        "revenue_growth", "current_ratio", "sector"})

BandRequests ==
    [symbol : {"AAPL"}, price_data : BandFrames \cup {BoundaryFrame},
     fundamentals : {Dict(m) : m \in BandFundamentals \cup {BoundaryFund}}]

InitBands ==
    /\ impl \in Impls
    /\ hasTA \in BOOLEAN
    /\ impl = "SA" => hasTA
    /\ scoring_weights = DefaultWeights
    /\ pc = "call"
    /\ req \in BandRequests
    /\ res = None
    /\ outcome = "none"
    /\ invoked = {}
    /\ locals = <<>>
    /\ history = <<>>

AnalyzeBandsPA ==
    /\ pc = "call"
    /\ impl = "PA"
    /\ res' = PA_analyze_stock(req, scoring_weights, hasTA)
    /\ outcome' = "returned"
    /\ invoked' = Scorers
    /\ pc' = "done"
    /\ UNCHANGED <<impl, hasTA, scoring_weights, req, locals, history>>

AnalyzeBandsSA ==
    /\ pc = "call"
    /\ impl = "SA"
    /\ res' = SA_analyze_stock(req, scoring_weights)
    /\ outcome' = "returned"
    /\ invoked' = IF SA_reaches_scorers(req) THEN Scorers ELSE {}
    /\ pc' = "done"
    /\ UNCHANGED <<impl, hasTA, scoring_weights, req, locals, history>>

NextBands == AnalyzeBandsPA \/ AnalyzeBandsSA

SpecBands == InitBands /\ [][NextBands]_vars

\* C27: in every successful analyze_stock result the recommendation is the
\* 80/65/35/20 classification of the reported, two-decimal overall_score.
C27_RecommendationOfReportedScore ==
    (pc = "done" /\ ErrorOf(res) = None) =>
        res.recommendation =
            (IF impl = "PA" THEN PA_get_recommendation(res.overall_score)
             ELSE SA_get_recommendation(res.overall_score))

\* C28: with the default weights a successful analysis scores at least 20
\* overall, so its recommendation is never STRONG_SELL.
C28_NeverStrongSell ==
    (pc = "done" /\ ErrorOf(res) = None) =>
        /\ res.overall_score >= Pts(20)
        /\ res.recommendation # "STRONG_SELL"

\* the lowest overall score of analysis.py: 20.6, a SELL
C28_Witness ==
    /\ pc = "done"
    /\ impl = "PA"
    /\ ErrorOf(res) = None
    /\ res.overall_score = Round2(Pts(20) + 60 * Hundredth)
    /\ res.recommendation = "SELL"

====
